---- MODULE Spec2Model ----
(***************************************************************************)
(* UromanService (src/src/mcp-server.ts): the process-wide romanization    *)
(* service with its lazily initialised engine, its result cache and the    *)
(* romanize / romanizeBatch / detectScript / resetCache operations, run by *)
(* cooperating requests of one JavaScript process; and the Cloudflare      *)
(* Workers adapter that answers HTTP requests with it.  A step is one      *)
(* synchronous run of code between two suspension points (await).          *)
(*                                                                         *)
(* Strings are sequences of one-character strings.  An optional value      *)
(* (undefined or a value) is a sequence of length 0 or 1.                  *)
(***************************************************************************)
EXTENDS Integers, Sequences, FiniteSets, TLC

\* ---------------------------------------------------------------- bounds
\* Number of requests that can be in flight at the same time.
NumProcs == 2
\* config.cacheSize, config.maxTextLength, config.maxBatchSize, scaled down.
cacheSize == 2
maxTextLength == 3
maxBatchSize == 11
\* How many engine calls may throw in one behaviour.
MaxEngineFailures == 1
\* maxLength of the items of texts in the schema of the romanize_batch tool
\* and maxLength of text in the schema of the detect_script tool, scaled down.
ItemMaxLength == 1
DetectMaxLength == 2
\* How many characters of the text the error of a failed engine call keeps,
\* scaled down.
DiagnosticLength == 1

\* The number of UTF-16 units getCharacterDetails keeps (100 in the code),
\* scaled like the limits.
DetailsLength == 2

\* The batch loop yields after every item whose index is a positive multiple
\* of this.
YieldEvery == 10

Procs == 1..NumProcs

\* ------------------------------------------------------- optional values
None == <<>>

Some(x) == <<x>>

\* ------------------------------------------------------------ the inputs
EmptyText == <<>>

TextA == <<"a">>

LongText == [i \in 1..(maxTextLength + 1) |-> "a"]

Texts == {EmptyText, TextA, LongText}

\* undefined, "", "rus", "Rus"
Languages == {None, Some(<<>>), Some(<<"r", "u", "s">>), Some(<<"R", "u", "s">>)}

Formats == {"undefined", "str", "edges"}

\* The arguments of a call: romanize reads text, language and format,
\* romanizeBatch reads texts and language.
RomanizeInputs == [text : Texts, language : Languages, format : Formats, texts : {<<>>}]

YieldTexts == [i \in 1..(YieldEvery + 1) |-> TextA]

OversizedTexts == [i \in 1..(maxBatchSize + 1) |-> TextA]

\* What params.texts is when it is not an array (undefined, a string, an
\* object): no array of texts has this value, whose one item is no text.
NotAnArray == <<<<"not an array">>>>

BatchTexts == {<<>>, <<LongText, TextA>>, <<TextA, EmptyText>>, YieldTexts, OversizedTexts}

BatchInputs == [text : {<<>>}, language : Languages, format : {"undefined"}, texts : BatchTexts]

\* The inputs of overlapping requests.
ConcurrentRomanizeInputs ==
    [text : {TextA}, language : {None}, format : {"undefined", "edges"}, texts : {<<>>}]

ConcurrentBatchInputs ==
    [text : {<<>>}, language : {None}, format : {"undefined"},
     texts : {<<LongText, TextA>>}]

\* What romanize_string returns for RomFormat.STR when it does not throw:
\* one Latin letter for each character of the text.
romanize_string(text) == [i \in 1..Len(text) |-> "x"]

\* ------------------------------------------------------------ errors
ERROR_CODES == [INVALID_INPUT |-> "INVALID_INPUT",
                TEXT_TOO_LONG |-> "TEXT_TOO_LONG",
                INVALID_LANGUAGE_CODE |-> "INVALID_LANGUAGE_CODE",
                UNSUPPORTED_SCRIPT |-> "UNSUPPORTED_SCRIPT",
                ROMANIZATION_FAILED |-> "ROMANIZATION_FAILED",
                TIMEOUT |-> "TIMEOUT",
                RATE_LIMITED |-> "RATE_LIMITED",
                INTERNAL_ERROR |-> "INTERNAL_ERROR"]

\* new MCPError(code, message, {originalError: cause}); text is the `text`
\* of its details, when it has one.
MCPError(code, message, cause) ==
    [code |-> code, message |-> message, cause |-> cause, text |-> None]

\* Exceptions that are not MCPErrors.
TypeError(message) ==
    [code |-> "TypeError", message |-> message, cause |-> "none", text |-> None]

Error(message) == [code |-> "Error", message |-> message, cause |-> "none", text |-> None]

\* error instanceof MCPError
IsMCPError(error) == \E name \in DOMAIN ERROR_CODES : ERROR_CODES[name] = error.code

Thrown(error) == [kind |-> "error", error |-> Some(error), value |-> None]

Returned(value) == [kind |-> "value", error |-> None, value |-> Some(value)]

\* ------------------------------------------------------------ the state
VARIABLES
    uromanInstance,   \* this.uromanInstance: None or Some(instance id)
    uromanModule,     \* this.uromanModule: None or Some("uroman")
    initPromise,      \* this.initPromise: None or Some("promise")
    loadState,        \* state of the promise loadUroman() returned
    loadValue,        \* the instance that promise was fulfilled with
    loadError,        \* the error that promise was rejected with
    loadCount,        \* how many times loadUroman() has been entered
    cache,            \* this.cache, a Map in insertion order: <<[key, value]>>
    engineFailures,   \* engine calls that threw so far
    procs,            \* the requests in flight
    settled,          \* the call that settled in the last step, if any
    engineCall,       \* the call to the engine made in the last step, if any
    puts,             \* keys handed to addToCache since the cache was last
                      \* cleared, while they are distinct; else Some("overflow")
    lastHit,          \* key of the latest cache hit since the cache was cleared
    recency,          \* while puts is such a list: the keys a cache that refreshes
                      \* an entry when it is read would hold, least recent first
    detected,         \* the latest detectScript call that returned: its text,
                      \* what it returned, and whether the call that returned
                      \* before it had the same text
    env,              \* CloudflareEnv.UROMAN_CACHE_SIZE: None or Some(string)
    UromanService_instance,  \* UromanService.instance: None or Some(this.config)
    uromanService,    \* CloudflareAdapter.uromanService: is it set
    http,             \* the handleRequest call in flight
    response          \* the Response returned in the last step, if any

vars == <<uromanInstance, uromanModule, initPromise, loadState, loadValue, loadError,
          loadCount, cache, engineFailures, procs, settled,
          engineCall, puts, lastHit, recency, detected, env, UromanService_instance, uromanService, http,
          response>>

\* What the calls made on the service directly leave alone.
adapterVars == <<env, UromanService_instance, uromanService, http, response>>

NoParams == [text |-> <<>>, language |-> None, format |-> "undefined", texts |-> <<>>]

Idle == [pc |-> "idle", op |-> "none", params |-> NoParams, via |-> "none",
         uroman |-> None, idx |-> 0, results |-> <<>>, successful |-> 0,
         failed |-> 0]

\* ------------------------------------------------------------- numbers
\* A JavaScript number: an integer or NaN.
Num(n) == [isNaN |-> FALSE, n |-> n]

NaN == [isNaN |-> TRUE, n |-> 0]

\* a >= b, false when either side is NaN
GreaterEq(a, b) == ~a.isNaN /\ ~b.isNaN /\ a.n >= b.n

DigitChars == <<"0", "1", "2", "3", "4", "5", "6", "7", "8", "9">>

IsDigit(ch) == \E i \in 1..10 : DigitChars[i] = ch

DigitValue(ch) == (CHOOSE i \in 1..10 : DigitChars[i] = ch) - 1

RECURSIVE SkipSpaces(_)
SkipSpaces(str) ==
    IF Len(str) > 0 /\ str[1] = " " THEN SkipSpaces(Tail(str)) ELSE str

\* The value of the longest prefix of digits of str, after acc.
RECURSIVE DigitsValue(_, _)
DigitsValue(str, acc) ==
    IF Len(str) > 0 /\ IsDigit(str[1])
    THEN DigitsValue(Tail(str), 10 * acc + DigitValue(str[1]))
    ELSE acc

\* parseInt(str): leading blanks, a sign, then as many digits as there are;
\* NaN when there is no digit.
parseInt(str) ==
    LET trimmed == SkipSpaces(str)
        signed == Len(trimmed) > 0 /\ trimmed[1] \in {"-", "+"}
        digits == IF signed THEN Tail(trimmed) ELSE trimmed
    IN  IF Len(digits) = 0 \/ ~IsDigit(digits[1]) THEN NaN
        ELSE IF signed /\ trimmed[1] = "-" THEN Num(0 - DigitsValue(digits, 0))
        ELSE Num(DigitsValue(digits, 0))

\* ----------------------------------------------------- pure functions
\* A JavaScript string or undefined used as a condition.
Truthy(s) == s # None /\ s[1] # <<>>

LowerCase == {"a", "b", "c", "d", "e", "f", "g", "h", "i", "j", "k", "l", "m",
              "n", "o", "p", "q", "r", "s", "t", "u", "v", "w", "x", "y", "z"}

\* /^[a-z]{3}$/.test(language)
MatchesLanguagePattern(language) ==
    /\ Len(language) = 3
    /\ \A i \in 1..3 : language[i] \in LowerCase

AUTO == <<"a", "u", "t", "o">>

STR == <<"s", "t", "r">>

\* A key that puts nothing between its parts.
generateCacheKey_NoSeparator(text, language, format) ==
    text \o (IF Truthy(language) THEN language[1] ELSE AUTO)
         \o (IF Truthy(format) THEN format[1] ELSE STR)

\* `${text}:${language || 'auto'}:${format || 'str'}`
generateCacheKey(text, language, format) ==
    text \o <<":">> \o (IF Truthy(language) THEN language[1] ELSE AUTO)
         \o <<":">> \o (IF Truthy(format) THEN format[1] ELSE STR)

\* The characters outside the Basic Multilingual Plane, which are two UTF-16
\* units long.
AstralCharacters == {"U+10400"}

\* text.length: the number of UTF-16 units of the text.
String_length(text) == Len(text) + Len(SelectSeq(text, LAMBDA char : char \in AstralCharacters))

\* validateInput that also refuses the empty text.
validateInput_RejectsEmpty(text) ==
    IF Len(text) = 0
    THEN Some(MCPError(ERROR_CODES.INVALID_INPUT, "Text must not be empty", "none"))
    ELSE IF Len(text) > maxTextLength
    THEN Some(MCPError(ERROR_CODES.TEXT_TOO_LONG, "Text exceeds maximum length", "none"))
    ELSE None

\* validateInput without its length check.
validateInput_NoLimit(text) == None

\* validateInput: None, or the error it throws.  Every text of the inputs
\* is a string, so `typeof text !== 'string'` is false.
validateInput(text) ==
    IF String_length(text) > maxTextLength
    THEN Some(MCPError(ERROR_CODES.TEXT_TOO_LONG, "Text exceeds maximum length", "none"))
    ELSE None

\* validateLanguageCode: None, or the error it throws.
validateLanguageCode(language) ==
    IF Truthy(language) /\ ~MatchesLanguagePattern(language[1])
    THEN Some(MCPError(ERROR_CODES.INVALID_LANGUAGE_CODE, "Invalid language code", "none"))
    ELSE None

\* -------------------------------------------------------- detectScript
\* The characters of the texts given to detectScript, with what
\* `char.codePointAt(0)` and `/\p{L}/u.test(char)` give for them: a, space,
\* 1, Cyrillic em, Greek alpha, the euro sign, NUL, the Deseret letter long I
\* (outside the Basic Multilingual Plane) and the two surrogates that are its
\* UTF-16 units.
Characters ==
    {[char |-> "a", codePoint |-> 97, letter |-> TRUE],
     [char |-> " ", codePoint |-> 32, letter |-> FALSE],
     [char |-> "1", codePoint |-> 49, letter |-> FALSE],
     [char |-> "U+043C", codePoint |-> 1084, letter |-> TRUE],
     [char |-> "U+03B1", codePoint |-> 945, letter |-> TRUE],
     [char |-> "U+20AC", codePoint |-> 8364, letter |-> FALSE],
     [char |-> "U+0000", codePoint |-> 0, letter |-> FALSE],
     [char |-> "U+10400", codePoint |-> 66560, letter |-> TRUE],
     [char |-> "U+D801", codePoint |-> 55297, letter |-> FALSE],
     [char |-> "U+DC00", codePoint |-> 56320, letter |-> FALSE]}

codePointAt(char) == (CHOOSE c \in Characters : c.char = char).codePoint

IsLetter(char) == (CHOOSE c \in Characters : c.char = char).letter

\* scriptRanges of analyzeScripts, in the order they are tried.
scriptRanges ==
    <<[name |-> "Latin", code |-> "Latn", first |-> 0, last |-> 591],
      [name |-> "Cyrillic", code |-> "Cyrl", first |-> 1024, last |-> 1279],
      [name |-> "Arabic", code |-> "Arab", first |-> 1536, last |-> 1791],
      [name |-> "Devanagari", code |-> "Deva", first |-> 2304, last |-> 2431],
      [name |-> "Han", code |-> "Hani", first |-> 19968, last |-> 40959],
      [name |-> "Hiragana", code |-> "Hira", first |-> 12352, last |-> 12447],
      [name |-> "Katakana", code |-> "Kana", first |-> 12448, last |-> 12543],
      [name |-> "Hangul", code |-> "Hang", first |-> 44032, last |-> 55215],
      [name |-> "Thai", code |-> "Thai", first |-> 3584, last |-> 3711],
      [name |-> "Hebrew", code |-> "Hebr", first |-> 1424, last |-> 1535]>>

\* The ranges that hold codePoint.
RangesOf(codePoint) ==
    {i \in 1..Len(scriptRanges) :
        codePoint >= scriptRanges[i].first /\ codePoint <= scriptRanges[i].last}

\* The body of the loop over the characters of the text: the script the
\* character is counted for, or None when it is counted for no script.
CountedFor(char) ==
    LET codePoint == codePointAt(char)
        found == RangesOf(codePoint)
    IN  IF codePoint = 0 THEN None
        ELSE IF found # {}
        THEN Some(scriptRanges[CHOOSE i \in found : \A j \in found : i <= j].name)
        ELSE IF IsLetter(char) THEN Some("Other")
        ELSE None

\* scriptCounts.set(name, (scriptCounts.get(name) || 0) + 1), on a Map kept
\* as its entries in insertion order.
CountOneMore(scriptCounts, name) ==
    IF \E i \in 1..Len(scriptCounts) : scriptCounts[i].name = name
    THEN [i \in 1..Len(scriptCounts) |->
            IF scriptCounts[i].name = name
            THEN [scriptCounts[i] EXCEPT !.count = @ + 1]
            ELSE scriptCounts[i]]
    ELSE Append(scriptCounts, [name |-> name, count |-> 1])

\* scriptCounts after the loop over text, starting from counts.
RECURSIVE CountScripts(_, _)
CountScripts(text, counts) ==
    IF text = <<>> THEN counts
    ELSE CountScripts(Tail(text),
                      IF CountedFor(Head(text)) = None THEN counts
                      ELSE CountOneMore(counts, CountedFor(Head(text))[1]))

RECURSIVE SumCounts(_)
SumCounts(counts) ==
    IF counts = <<>> THEN 0 ELSE counts[1].count + SumCounts(Tail(counts))

\* Math.round(numerator / denominator), for a numerator that is not
\* negative and a positive denominator: halves are rounded up.
Math_round(numerator, denominator) == (2 * numerator + denominator) \div (2 * denominator)

\* scriptRanges.find(s => s.name === name)?.code || 'Zyyy'
ScriptCode(name) ==
    IF \E i \in 1..Len(scriptRanges) : scriptRanges[i].name = name
    THEN scriptRanges[CHOOSE i \in 1..Len(scriptRanges) : scriptRanges[i].name = name].code
    ELSE "Zyyy"

\* A sort that puts an entry before the entries that have as many
\* characters as it.
InsertByCount_BeforeEqual(sorted, entry) ==
    LET before == {i \in 1..Len(sorted) : sorted[i].characterCount > entry.characterCount}
        n == Cardinality(before)
    IN  SubSeq(sorted, 1, n) \o <<entry>> \o SubSeq(sorted, n + 1, Len(sorted))

\* entry goes behind every entry of sorted that does not have fewer
\* characters than it.
InsertByCount(sorted, entry) ==
    LET before == {i \in 1..Len(sorted) : sorted[i].characterCount >= entry.characterCount}
        n == Cardinality(before)
    IN  SubSeq(sorted, 1, n) \o <<entry>> \o SubSeq(sorted, n + 1, Len(sorted))

\* .sort((a, b) => b.characterCount - a.characterCount), which is stable.
RECURSIVE SortByCount(_, _)
SortByCount(entries, sorted) ==
    IF entries = <<>> THEN sorted
    ELSE SortByCount(Tail(entries), InsertByCount(sorted, Head(entries)))

\* analyzeScripts whose Map of counts is not emptied between two calls: it
\* still holds the counts of the text that was analyzed before.
analyzeScripts_SharedCounts(text) ==
    LET earlier == IF detected = None THEN <<>> ELSE CountScripts(detected[1].text, <<>>)
        scriptCounts == CountScripts(text, earlier)
        totalChars == SumCounts(scriptCounts)
    IN  SortByCount([i \in 1..Len(scriptCounts) |->
                        [name |-> scriptCounts[i].name,
                         code |-> ScriptCode(scriptCounts[i].name),
                         percentage |-> Math_round(scriptCounts[i].count * 100, totalChars),
                         characterCount |-> scriptCounts[i].count]],
                    <<>>)

\* analyzeScripts(text)
analyzeScripts(text) ==
    LET scriptCounts == CountScripts(text, <<>>)
        totalChars == SumCounts(scriptCounts)
    IN  SortByCount([i \in 1..Len(scriptCounts) |->
                        [name |-> scriptCounts[i].name,
                         code |-> ScriptCode(scriptCounts[i].name),
                         percentage |-> Math_round(scriptCounts[i].count * 100, totalChars),
                         characterCount |-> scriptCounts[i].count]],
                    <<>>)

\* An if-chain whose first test takes the code points up to U+04FF for Latin.
getCharScriptRanges_WideLatin ==
    <<[name |-> "Latin", first |-> 0, last |-> 1279],
      [name |-> "Cyrillic", first |-> 1024, last |-> 1279],
      [name |-> "Arabic", first |-> 1536, last |-> 1791],
      [name |-> "Devanagari", first |-> 2304, last |-> 2431],
      [name |-> "Han", first |-> 19968, last |-> 40959],
      [name |-> "Hiragana", first |-> 12352, last |-> 12447],
      [name |-> "Katakana", first |-> 12448, last |-> 12543],
      [name |-> "Hangul", first |-> 44032, last |-> 55215],
      [name |-> "Thai", first |-> 3584, last |-> 3711],
      [name |-> "Hebrew", first |-> 1424, last |-> 1535]>>

\* The if-chain of getCharScript, in the order of its tests.
getCharScriptRanges ==
    <<[name |-> "Latin", first |-> 0, last |-> 591],
      [name |-> "Cyrillic", first |-> 1024, last |-> 1279],
      [name |-> "Arabic", first |-> 1536, last |-> 1791],
      [name |-> "Devanagari", first |-> 2304, last |-> 2431],
      [name |-> "Han", first |-> 19968, last |-> 40959],
      [name |-> "Hiragana", first |-> 12352, last |-> 12447],
      [name |-> "Katakana", first |-> 12448, last |-> 12543],
      [name |-> "Hangul", first |-> 44032, last |-> 55215],
      [name |-> "Thai", first |-> 3584, last |-> 3711],
      [name |-> "Hebrew", first |-> 1424, last |-> 1535]>>

\* getCharScript(char): the first test of the chain that holds, 'Unknown' for
\* a code point that is falsy and 'Other' at the end of the chain.
getCharScript(char) ==
    LET codePoint == codePointAt(char)
        found == {i \in 1..Len(getCharScriptRanges) :
                     /\ codePoint >= getCharScriptRanges[i].first
                     /\ codePoint <= getCharScriptRanges[i].last}
    IN  IF codePoint = 0 THEN "Unknown"
        ELSE IF found # {}
        THEN getCharScriptRanges[CHOOSE i \in found : \A j \in found : i <= j].name
        ELSE "Other"

\* text.split(''): the UTF-16 units of the text, one string for each.
RECURSIVE split(_)
split(text) ==
    IF text = <<>> THEN <<>>
    ELSE (IF Head(text) \in AstralCharacters
          THEN <<"U+D801", "U+DC00">>
          ELSE <<Head(text)>>) \o split(Tail(text))

\* array.slice(0, end)
slice(array, end) == SubSeq(array, 1, IF Len(array) < end THEN Len(array) ELSE end)

\* getCharacterDetails(text)
getCharacterDetails(text) ==
    LET chars == slice(split(text), DetailsLength)
    IN  [i \in 1..Len(chars) |-> [char |-> chars[i], script |-> getCharScript(chars[i])]]

\* The result of detectScript for scripts and the length of the text, before
\* `details` is assigned (None: the result has no details).
DetectResult(scripts, length) ==
    IF Len(scripts) = 0
    THEN [scripts |-> <<[name |-> "Unknown", code |-> "Zyyy", percentage |-> 100,
                         characterCount |-> length]>>,
          primaryScript |-> "Unknown",
          mixedScript |-> FALSE,
          details |-> None]
    ELSE [scripts |-> scripts,
          primaryScript |-> scripts[1].name,
          mixedScript |-> Len(scripts) > 1,
          details |-> None]

\* detectScript(params), which does not suspend: what it throws or returns.
\* The result for a text without counted characters is returned before
\* `params.detailed` is looked at.
detectScript(params) ==
    LET invalidText == validateInput(params.text)
        scripts == analyzeScripts(params.text)
        result == DetectResult(scripts, String_length(params.text))
    IN  IF invalidText # None THEN Thrown(invalidText[1])
        ELSE Returned([type |-> "scripts",
                       val |-> <<IF Len(scripts) # 0 /\ params.detailed
                                 THEN [result EXCEPT
                                          !.details = Some(getCharacterDetails(params.text))]
                                 ELSE result>>])

CacheKeys(c) == {c[i].key : i \in 1..Len(c)}

KeyIndex(c, key) == CHOOSE i \in 1..Len(c) : c[i].key = key

\* this.cache.get(key): undefined or the stored string
cacheGet(c, key) ==
    IF key \in CacheKeys(c) THEN Some(c[KeyIndex(c, key)].value) ELSE None

\* A set that adds an entry whether or not the key is held.
MapSet_Appends(c, key, value) == Append(c, [key |-> key, value |-> value])

\* Map.prototype.set: an existing key keeps its position.
MapSet(c, key, value) ==
    IF key \in CacheKeys(c)
    THEN [c EXCEPT ![KeyIndex(c, key)].value = value]
    ELSE Append(c, [key |-> key, value |-> value])

\* Map.prototype.delete
MapDelete(c, key) == SelectSeq(c, LAMBDA e : e.key # key)

\* addToCache that never evicts.
addToCache_NoEvict(c, key, value) == MapSet(c, key, value)

\* addToCache that spares the entry read last and evicts the next oldest one.
addToCache_LRU(c, key, value) ==
    LET victims == SelectSeq(c, LAMBDA e : Some(e.key) # lastHit)
        evicted == IF Len(c) >= cacheSize /\ Len(victims) > 0
                   THEN MapDelete(c, victims[1].key)
                   ELSE c
    IN  MapSet(evicted, key, value)

addToCache(c, key, value) ==
    LET firstKey == IF Len(c) > 0 THEN Some(c[1].key) ELSE None
        evicted == IF GreaterEq(Num(Len(c)), UromanService_instance[1].cacheSize) /\ Truthy(firstKey)
                   THEN MapDelete(c, firstKey[1])
                   ELSE c
    IN  MapSet(evicted, key, value)

\* ------------------------------------------------- romanize, first part
Pending == [kind |-> "await", error |-> None, value |-> None]

StringValue(str) == [type |-> "string", val |-> str]

ArrayValue == [type |-> "array", val |-> <<>>]

\* The cache lookup made for every format.
IsPlain_AnyFormat(params) == TRUE

\* `params.format === 'str' || !params.format`
IsPlain(params) == params.format = "str" \/ params.format = "undefined"

\* romanize up to `await this.getUroman()`: what it throws, what it returns
\* from the cache, or Pending when it goes on to the engine.
romanizeSync(params, c) ==
    LET invalidText == validateInput(params.text)
        invalidLanguage == validateLanguageCode(params.language)
        cached == cacheGet(c, generateCacheKey(params.text, params.language, Some(STR)))
    IN  IF invalidText # None THEN Thrown(invalidText[1])
        ELSE IF invalidLanguage # None THEN Thrown(invalidLanguage[1])
        ELSE IF IsPlain(params) /\ Truthy(cached) THEN Returned(StringValue(cached[1]))
        ELSE Pending

\* getUroman that does not look at the pending initialization.
getUromanBranch_NoMemo(instance, promise) ==
    IF instance # None THEN "ready" ELSE "load"

\* getUroman that does not return the instance it has.
getUromanBranch_NoInstance(instance, promise) ==
    IF promise # None THEN "wait" ELSE "load"

\* getUroman up to its first suspension: which of its three branches runs.
getUromanBranch(instance, promise) ==
    IF instance # None THEN "ready"
    ELSE IF promise # None THEN "wait"
    ELSE "load"

\* ------------------------------------------------------ romanizeBatch
\* romanizeParams of the item the loop is at
ItemParams(rec) ==
    [text |-> rec.params.texts[rec.idx + 1],
     language |-> IF Truthy(rec.params.language) THEN rec.params.language ELSE None,
     format |-> "str",
     texts |-> <<>>]

CallParams(rec) == IF rec.op = "batch" THEN ItemParams(rec) ELSE rec.params

\* ItemResult that numbers the items from one.
ItemResult_IndexFromOne(index, text, outcome) ==
    IF outcome.kind = "value"
    THEN [index |-> index + 1, original |-> text, romanized |-> outcome.value[1].val,
          success |-> TRUE, error |-> None]
    ELSE [index |-> index + 1, original |-> text, romanized |-> text,
          success |-> FALSE, error |-> Some(outcome.error[1].message)]

\* The entry pushed to results for the item at index, given how its
\* romanize call settled.
ItemResult(index, text, outcome) ==
    IF outcome.kind = "value"
    THEN [index |-> index, original |-> text, romanized |-> outcome.value[1].val,
          success |-> TRUE, error |-> None]
    ELSE [index |-> index, original |-> text, romanized |-> text,
          success |-> FALSE, error |-> Some(outcome.error[1].message)]

\* The head of the for loop: another item, or the return statement.
LoopPc(rec) == IF rec.idx < Len(rec.params.texts) THEN "batch_item" ELSE "batch_return"

\* `index % 10 === 0 && index > 0`
YieldsAfter(index) == index % YieldEvery = 0 /\ index > 0

\* The loop body when a failed item ends the loop.
BatchPush_AbortOnError(rec, outcome) ==
    LET index == rec.idx
        ok == outcome.kind = "value"
        pushed == [rec EXCEPT !.results = Append(@, ItemResult(index, rec.params.texts[index + 1], outcome)),
                              !.successful = IF ok THEN @ + 1 ELSE @,
                              !.failed = IF ok THEN @ ELSE @ + 1,
                              !.idx = index + 1,
                              !.via = "none",
                              !.uroman = None]
    IN  [pushed EXCEPT !.pc = IF ~ok THEN "batch_return"
                              ELSE IF YieldsAfter(index) THEN "batch_yield"
                              ELSE LoopPc(pushed)]

\* The loop body after `await this.romanize(...)` settled.
BatchPush(rec, outcome) ==
    LET index == rec.idx
        ok == outcome.kind = "value"
        pushed == [rec EXCEPT !.results = Append(@, ItemResult(index, rec.params.texts[index + 1], outcome)),
                              !.successful = IF ok THEN @ + 1 ELSE @,
                              !.failed = IF ok THEN @ ELSE @ + 1,
                              !.idx = index + 1,
                              !.via = "none",
                              !.uroman = None]
    IN  [pushed EXCEPT !.pc = IF YieldsAfter(index) THEN "batch_yield" ELSE LoopPc(pushed)]

NoStats == [total |-> 0, successful |-> 0, failed |-> 0]

\* The romanize call of rec (a single call, or the current item of a batch)
\* settles with outcome.
SettleCall(p, rec, outcome) ==
    /\ procs' = [procs EXCEPT ![p] = IF rec.op = "batch" THEN BatchPush(rec, outcome) ELSE Idle]
    /\ settled' = Some([proc |-> p,
                        op |-> IF rec.op = "batch" THEN "item" ELSE "romanize",
                        params |-> CallParams(rec),
                        outcome |-> outcome,
                        via |-> rec.via,
                        results |-> <<>>,
                        stats |-> NoStats])

\* ------------------------------------------------------------ the ghosts
Overflow == <<"overflow">>

PutsValid == puts = <<>> \/ puts[1] # Overflow

LogPut(key) ==
    IF ~PutsValid \/ Len(puts) >= cacheSize + 1 \/ (\E i \in 1..Len(puts) : puts[i] = key)
    THEN <<Overflow>>
    ELSE Append(puts, key)

\* The keys of the LRUCache of the core logic test, least recent first.
\* LRUCache.get(key): a key that is held moves to the end.
LRUCache_get(keys, key) ==
    IF \E i \in 1..Len(keys) : keys[i] = key
    THEN SelectSeq(keys, LAMBDA k : k # key) \o <<key>>
    ELSE keys

\* LRUCache.set(key, value) with maxSize = cacheSize: a full cache drops its
\* first key for a new key; a key that is held keeps its place.
LRUCache_set(keys, key) ==
    IF \E i \in 1..Len(keys) : keys[i] = key THEN keys
    ELSE IF Len(keys) >= cacheSize /\ Len(keys) > 0 THEN Tail(keys) \o <<key>>
    ELSE keys \o <<key>>

\* ------------------------------------------------------------ the actions
\* this.config of a service constructed with { cacheSize: size }
UromanConfig(size) == [cacheSize |-> size]

\* UromanService.getInstance(config): the instance there is, or a new one.
getInstance(existing, config) == IF existing = None THEN Some(config) ELSE existing

NoBody == [json |-> "none", id |-> None, method |-> None, params |-> None]

HttpIdle == [pc |-> "idle", request |-> [method |-> "none", body |-> NoBody]]

\* The fields of a service that was just constructed.
ServiceInit ==
    /\ uromanInstance = None
    /\ uromanModule = None
    /\ initPromise = None
    /\ loadState = "none"
    /\ loadValue = None
    /\ loadError = None
    /\ loadCount = 0
    /\ cache = <<>>
    /\ engineFailures = 0
    /\ procs = [p \in Procs |-> Idle]
    /\ settled = None
    /\ engineCall = None
    /\ puts = <<>>
    /\ lastHit = None
    /\ recency = <<>>
    /\ detected = None

\* A service constructed with cacheSize, maxTextLength and maxBatchSize, for
\* the calls made on it directly.
Init ==
    /\ ServiceInit
    /\ env = None
    /\ UromanService_instance = Some(UromanConfig(Num(cacheSize)))
    /\ uromanService = FALSE
    /\ http = HttpIdle
    /\ response = None

\* romanize from its entry to its first suspension, for the call of rec:
\* validation, the cache lookup and the synchronous part of getUroman (and
\* of loadUroman, when this call is the one that starts it).
BeginRomanize(p, rec) ==
    LET params == CallParams(rec)
        out == romanizeSync(params, cache)
        branch == getUromanBranch(uromanInstance, initPromise)
    IN  /\ engineCall' = None
        /\ UNCHANGED <<uromanInstance, uromanModule, loadValue, loadError, cache,
                       engineFailures, puts, detected>>
        /\ recency' = IF out.kind = "value" /\ PutsValid
                      THEN LRUCache_get(recency, generateCacheKey(params.text, params.language,
                                                                  Some(STR)))
                      ELSE recency
        /\ IF out.kind # "await"
           THEN /\ SettleCall(p, rec, out)
                /\ lastHit' = IF out.kind = "value"
                              THEN Some(generateCacheKey(params.text, params.language, Some(STR)))
                              ELSE lastHit
                /\ UNCHANGED <<initPromise, loadState, loadCount>>
           ELSE /\ settled' = None
                /\ lastHit' = lastHit
                /\ CASE branch = "ready" ->
                          /\ procs' = [procs EXCEPT ![p] = [rec EXCEPT !.pc = "romanize_resume",
                                                                       !.via = "ready",
                                                                       !.uroman = uromanInstance]]
                          /\ UNCHANGED <<initPromise, loadState, loadCount>>
                     [] branch = "wait" ->
                          /\ procs' = [procs EXCEPT ![p] = [rec EXCEPT !.pc = "initPromise_await",
                                                                       !.via = loadState]]
                          /\ UNCHANGED <<initPromise, loadState, loadCount>>
                     [] branch = "load" ->
                          /\ procs' = [procs EXCEPT ![p] = [rec EXCEPT !.pc = "getUroman_await",
                                                                       !.via = "load"]]
                          /\ initPromise' = Some("promise")
                          /\ loadState' = "pending"
                          /\ loadCount' = loadCount + 1

\* A request calls romanize(params).
Romanize(p, params) ==
    /\ procs[p].pc = "idle"
    /\ BeginRomanize(p, [Idle EXCEPT !.op = "romanize", !.params = params])

\* Array.isArray that takes everything for an array.
Array_isArray_Always(texts) == TRUE

\* Array.isArray(params.texts)
Array_isArray(texts) == texts # NotAnArray

\* A request calls romanizeBatch(params): the checks before the loop.
RomanizeBatch(p, params) ==
    /\ procs[p].pc = "idle"
    /\    LET invalidLanguage == validateLanguageCode(params.language)
              rec == [Idle EXCEPT !.op = "batch", !.params = params]
              thrown(error) == Some([proc |-> p, op |-> "batch", params |-> params,
                                     outcome |-> Thrown(error), via |-> "none",
                                     results |-> <<>>, stats |-> NoStats])
          IN  IF ~Array_isArray(params.texts)
              THEN /\ settled' = thrown(MCPError(ERROR_CODES.INVALID_INPUT,
                                                  "Texts must be an array", "none"))
                   /\ procs' = procs
              ELSE IF Len(params.texts) > maxBatchSize
              THEN /\ settled' = thrown(MCPError(ERROR_CODES.INVALID_INPUT,
                                                  "Batch size exceeds maximum", "none"))
                   /\ procs' = procs
              ELSE IF invalidLanguage # None
              THEN /\ settled' = thrown(invalidLanguage[1])
                   /\ procs' = procs
              ELSE /\ settled' = None
                   /\ procs' = [procs EXCEPT ![p] = [rec EXCEPT !.pc = LoopPc(rec)]]
    /\ engineCall' = None
    /\ UNCHANGED <<uromanInstance, uromanModule, initPromise, loadState, loadValue,
                   loadError, loadCount, cache, engineFailures,
                   puts, lastHit, recency, detected>>

\* The loop calls romanize for its next item.
BatchItem(p) ==
    /\ procs[p].pc = "batch_item"
    /\ BeginRomanize(p, procs[p])

\* `await import('uroman')` settles and loadUroman runs to its end.
LoadUromanResume ==
    /\ loadState = "pending"
    /\ \E how \in {"loaded", "import fails", "constructor throws"} :
          IF how = "loaded"
          THEN /\ uromanModule' = Some("uroman")
               /\ uromanInstance' = Some(loadCount)
               /\ loadState' = "fulfilled"
               /\ loadValue' = Some(loadCount)
               /\ loadError' = loadError
          ELSE /\ uromanModule' = IF how = "import fails" THEN uromanModule ELSE Some("uroman")
               /\ uromanInstance' = uromanInstance
               /\ loadState' = "rejected"
               /\ loadValue' = loadValue
               /\ loadError' = Some(MCPError(ERROR_CODES.INTERNAL_ERROR,
                                              "Failed to initialize uroman", how))
    /\ settled' = None
    /\ engineCall' = None
    /\ UNCHANGED <<initPromise, loadCount, cache, engineFailures,
                   procs, puts, lastHit, recency, detected>>

\* getUroman that forgets the initialization promise when it was rejected.
GetUromanResume_ClearsOnFailure(p) ==
    /\ procs[p].pc = "getUroman_await"
    /\ loadState \in {"fulfilled", "rejected"}
    /\ initPromise' = None
    /\ IF loadState = "fulfilled"
       THEN /\ uromanInstance' = loadValue
            /\ procs' = [procs EXCEPT ![p].pc = "romanize_resume", ![p].uroman = loadValue]
            /\ settled' = None
       ELSE /\ SettleCall(p, procs[p], Thrown(loadError[1]))
            /\ UNCHANGED uromanInstance
    /\ engineCall' = None
    /\ UNCHANGED <<uromanModule, loadState, loadValue, loadError, loadCount, cache,
                   engineFailures, puts, lastHit, recency, detected>>

\* getUroman resumes at `this.uromanInstance = await this.initPromise` in the
\* call that started loadUroman.
GetUromanResume(p) ==
    /\ procs[p].pc = "getUroman_await"
    /\ loadState \in {"fulfilled", "rejected"}
    /\ IF loadState = "fulfilled"
       THEN /\ uromanInstance' = loadValue
            /\ initPromise' = None
            /\ procs' = [procs EXCEPT ![p].pc = "romanize_resume", ![p].uroman = loadValue]
            /\ settled' = None
       ELSE /\ SettleCall(p, procs[p], Thrown(loadError[1]))
            /\ UNCHANGED <<uromanInstance, initPromise>>
    /\ engineCall' = None
    /\ UNCHANGED <<uromanModule, loadState, loadValue, loadError, loadCount, cache,
                   engineFailures, puts, lastHit, recency, detected>>

\* Waiters that are resumed only when the initialization succeeded.
InitPromiseResume_OnlyFulfilled(p) ==
    /\ procs[p].pc = "initPromise_await"
    /\ loadState = "fulfilled"
    /\ procs' = [procs EXCEPT ![p].pc = "romanize_resume", ![p].uroman = loadValue]
    /\ settled' = None
    /\ engineCall' = None
    /\ UNCHANGED <<uromanInstance, uromanModule, initPromise, loadState, loadValue,
                   loadError, loadCount, cache, engineFailures,
                   puts, lastHit, recency, detected>>

\* A call that got `return this.initPromise` from getUroman resumes.
InitPromiseResume(p) ==
    /\ procs[p].pc = "initPromise_await"
    /\ loadState \in {"fulfilled", "rejected"}
    /\ IF loadState = "fulfilled"
       THEN /\ procs' = [procs EXCEPT ![p].pc = "romanize_resume", ![p].uroman = loadValue]
            /\ settled' = None
       ELSE SettleCall(p, procs[p], Thrown(loadError[1]))
    /\ engineCall' = None
    /\ UNCHANGED <<uromanInstance, uromanModule, initPromise, loadState, loadValue,
                   loadError, loadCount, cache, engineFailures,
                   puts, lastHit, recency, detected>>

\* What romanize_string does when romanize calls it: the array of edges, the
\* string, or (while the engine may still fail) an exception.
EngineOutcomes(params) ==
    {IF params.format = "edges"
     THEN Returned(ArrayValue)
     ELSE Returned(StringValue(romanize_string(params.text)))}
    \cup (IF engineFailures < MaxEngineFailures
          THEN {Thrown(Error("engine throws"))}
          ELSE {})

\* text.substring(0, end)
substring(text, end) == SubSeq(text, 1, IF Len(text) < end THEN Len(text) ELSE end)

\* The catch block of romanize that keeps the whole text in the details.
romanizeCatch_WholeText(error, params) ==
    IF IsMCPError(error) THEN error
    ELSE [MCPError(ERROR_CODES.ROMANIZATION_FAILED, "Failed to romanize text", error.message)
            EXCEPT !.text = Some(params.text)]

\* The catch block of romanize: the error it throws for the one it caught.
romanizeCatch(error, params) ==
    IF IsMCPError(error) THEN error
    ELSE [MCPError(ERROR_CODES.ROMANIZATION_FAILED, "Failed to romanize text", error.message)
            EXCEPT !.text = Some(substring(params.text, DiagnosticLength))]

\* How romanize settles for what the engine did.
romanizeOutcome(outcome, params) ==
    IF outcome.kind = "error"
    THEN Thrown(romanizeCatch(outcome.error[1], params))
    ELSE outcome

\* `if (typeof result === 'string')`
IsStored(outcome) == outcome.kind = "value" /\ outcome.value[1].type = "string"

\* romanize whose catch block stores the original text as the result.
cacheAfterEngine_CachesFallback(c, params, outcome) ==
    addToCache(c, generateCacheKey(params.text, params.language, Some(STR)),
               IF IsStored(outcome) THEN outcome.value[1].val ELSE params.text)

\* The cache after romanize handled what the engine did: the store of a
\* string result, nothing for an array and nothing in the catch block.
cacheAfterEngine(c, params, outcome) ==
    IF IsStored(outcome)
    THEN addToCache(c, generateCacheKey(params.text, params.language, Some(STR)),
                    outcome.value[1].val)
    ELSE c

\* romanize that calls romanize_string again after it threw.
RomanizeResume_Retry(p) ==
    /\ procs[p].pc = "romanize_resume"
    /\ LET rec == procs[p]
           params == CallParams(rec)
       IN  \E outcome \in EngineOutcomes(params) :
                 /\ engineCall' = Some([method |-> "romanize_string", text |-> params.text,
                                        lcode |-> params.language,
                                        format |-> IF params.format = "edges"
                                                   THEN "EDGES" ELSE "STR",
                                        instance |-> rec.uroman[1],
                                        thrown |-> outcome.error])
                 /\ cache' = cacheAfterEngine(cache, params, outcome)
                 /\ puts' = IF IsStored(outcome)
                            THEN LogPut(generateCacheKey(params.text, params.language, Some(STR)))
                            ELSE puts
                 /\ recency' = IF ~IsStored(outcome) THEN recency
                               ELSE IF puts' = <<Overflow>> THEN <<>>
                               ELSE LRUCache_set(recency,
                                                 generateCacheKey(params.text, params.language,
                                                                  Some(STR)))
                 /\ engineFailures' = IF outcome.kind = "error"
                                      THEN engineFailures + 1
                                      ELSE engineFailures
                 /\ IF outcome.kind = "error"
                    THEN settled' = None /\ procs' = procs
                    ELSE SettleCall(p, rec, romanizeOutcome(outcome, params))
    /\ UNCHANGED <<uromanInstance, uromanModule, initPromise, loadState, loadValue,
                   loadError, loadCount, lastHit, detected>>

\* romanize resumes with the engine: romanize_string, the cache store, the
\* return; or the catch block when the engine throws.
RomanizeResume(p) ==
    /\ procs[p].pc = "romanize_resume"
    /\ LET rec == procs[p]
           params == CallParams(rec)
       IN  \E outcome \in EngineOutcomes(params) :
                 /\ engineCall' = Some([method |-> "romanize_string", text |-> params.text,
                                        lcode |-> params.language,
                                        format |-> IF params.format = "edges"
                                                   THEN "EDGES" ELSE "STR",
                                        instance |-> rec.uroman[1],
                                        thrown |-> outcome.error])
                 /\ cache' = cacheAfterEngine(cache, params, outcome)
                 /\ puts' = IF IsStored(outcome)
                            THEN LogPut(generateCacheKey(params.text, params.language, Some(STR)))
                            ELSE puts
                 /\ recency' = IF ~IsStored(outcome) THEN recency
                               ELSE IF puts' = <<Overflow>> THEN <<>>
                               ELSE LRUCache_set(recency,
                                                 generateCacheKey(params.text, params.language,
                                                                  Some(STR)))
                 /\ engineFailures' = IF outcome.kind = "error"
                                      THEN engineFailures + 1
                                      ELSE engineFailures
                 /\ SettleCall(p, rec, romanizeOutcome(outcome, params))
    /\ UNCHANGED <<uromanInstance, uromanModule, initPromise, loadState, loadValue,
                   loadError, loadCount, lastHit, detected>>

\* The timer of `await new Promise(resolve => setTimeout(resolve, 0))` fires.
BatchYield(p) ==
    /\ procs[p].pc = "batch_yield"
    /\ procs' = [procs EXCEPT ![p].pc = LoopPc(procs[p])]
    /\ settled' = None
    /\ engineCall' = None
    /\ UNCHANGED <<uromanInstance, uromanModule, initPromise, loadState, loadValue,
                   loadError, loadCount, cache, engineFailures,
                   puts, lastHit, recency, detected>>

\* The loop is over: romanizeBatch returns results and stats.
BatchReturn(p) ==
    /\ procs[p].pc = "batch_return"
    /\ settled' = Some([proc |-> p, op |-> "batch", params |-> procs[p].params,
                        outcome |-> Returned([type |-> "batch", val |-> <<>>]),
                        via |-> "none",
                        results |-> procs[p].results,
                        stats |-> [total |-> Len(procs[p].params.texts),
                                   successful |-> procs[p].successful,
                                   failed |-> procs[p].failed]])
    /\ procs' = [procs EXCEPT ![p] = Idle]
    /\ engineCall' = None
    /\ UNCHANGED <<uromanInstance, uromanModule, initPromise, loadState, loadValue,
                   loadError, loadCount, cache, engineFailures,
                   puts, lastHit, recency, detected>>

\* The call that settled when resetCache returned.
ResetReturned ==
    Some([proc |-> 0, op |-> "resetCache", params |-> NoParams,
          outcome |-> Returned([type |-> "undefined", val |-> <<>>]),
          via |-> "none", results |-> <<>>, stats |-> NoStats])

\* resetCache that also forgets the engine, so that it is loaded again.
ResetCache_DropsEngine ==
    /\ cache' = <<>>
    /\ puts' = <<>>
    /\ lastHit' = None
    /\ recency' = <<>>
    /\ settled' = ResetReturned
    /\ engineCall' = IF uromanInstance # None
                     THEN Some([method |-> "reset_cache", text |-> <<>>, lcode |-> None,
                                format |-> "none", instance |-> uromanInstance[1],
                                thrown |-> None])
                     ELSE None
    /\ uromanInstance' = None
    /\ initPromise' = None
    /\ UNCHANGED <<uromanModule, loadState, loadValue, loadError, loadCount,
                   engineFailures, procs, detected>>

\* resetCache(), which does not suspend.
ResetCache ==
    /\ cache' = <<>>
    /\ puts' = <<>>
    /\ lastHit' = None
    /\ recency' = <<>>
    /\ settled' = ResetReturned
    /\ engineCall' = IF uromanInstance # None
                     THEN Some([method |-> "reset_cache", text |-> <<>>, lcode |-> None,
                                format |-> "none", instance |-> uromanInstance[1],
                                thrown |-> None])
                     ELSE None
    /\ UNCHANGED <<uromanInstance, uromanModule, initPromise, loadState, loadValue,
                   loadError, loadCount, engineFailures, procs, detected>>

\* Requests that follow one another: one request at a time, all inputs.
Next ==
    \/ (\E params \in RomanizeInputs : Romanize(1, params)) /\ UNCHANGED adapterVars
    \/ (\E params \in BatchInputs : RomanizeBatch(1, params)) /\ UNCHANGED adapterVars
    \/ BatchItem(1) /\ UNCHANGED adapterVars
    \/ LoadUromanResume /\ UNCHANGED adapterVars
    \/ GetUromanResume(1) /\ UNCHANGED adapterVars
    \/ InitPromiseResume(1) /\ UNCHANGED adapterVars
    \/ RomanizeResume(1) /\ UNCHANGED adapterVars
    \/ BatchYield(1) /\ UNCHANGED adapterVars
    \/ BatchReturn(1) /\ UNCHANGED adapterVars
    \/ ResetCache /\ UNCHANGED adapterVars

Spec == Init /\ [][Next]_vars

\* Requests that overlap: up to NumProcs requests in flight, fewer inputs (no
\* batch long enough to reach the yield of the loop).
NextConcurrent ==
    \/ (\E p \in Procs : \E params \in ConcurrentRomanizeInputs : Romanize(p, params))
          /\ UNCHANGED adapterVars
    \/ (\E p \in Procs : \E params \in ConcurrentBatchInputs : RomanizeBatch(p, params))
          /\ UNCHANGED adapterVars
    \/ (\E p \in Procs : BatchItem(p)) /\ UNCHANGED adapterVars
    \/ LoadUromanResume /\ UNCHANGED adapterVars
    \/ (\E p \in Procs : GetUromanResume(p)) /\ UNCHANGED adapterVars
    \/ (\E p \in Procs : InitPromiseResume(p)) /\ UNCHANGED adapterVars
    \/ (\E p \in Procs : RomanizeResume(p)) /\ UNCHANGED adapterVars
    \/ (\E p \in Procs : BatchReturn(p)) /\ UNCHANGED adapterVars
    \/ ResetCache /\ UNCHANGED adapterVars

SpecConcurrent == Init /\ [][NextConcurrent]_vars

\* ----------------------------------------------- detectScript, called directly
\* The letters the texts given to detectScript are made of: Latin, Cyrillic
\* and one of no range.
DetectAlphabet == {"a", "U+043C", "U+03B1"}

\* Every text of up to maxTextLength of these letters; texts with a blank, a
\* digit, a sign or NUL; and a text that is too long.
DetectTexts ==
    UNION {[1..n -> DetectAlphabet] : n \in 0..maxTextLength}
    \cup {<<"a", " ", "U+043C">>, <<" ">>, <<"1", "a">>, <<"U+20AC">>,
          <<"U+0000", "U+043C">>, <<"U+20AC", "U+03B1", "1">>, LongText}

DetectInputs ==
    [text : DetectTexts, language : {None}, format : {"undefined"}, texts : {<<>>},
     detailed : {FALSE}]

\* The romanize call made between the detectScript calls.
DetectRomanizeInputs ==
    [text : {TextA}, language : {None}, format : {"undefined"}, texts : {<<>>}]

LimitDetectInputs ==
    [text : {TextA, <<"a", "U+043C">>}, language : {None}, format : {"undefined"},
     texts : {<<>>}, detailed : {FALSE}]

\* The detectScript calls with these inputs: the params of each and what
\* detectScript throws or returns for them.
DetectCalls ==
    {[params |-> params, outcome |-> detectScript(params)] : params \in DetectInputs}

LimitDetectCalls ==
    {[params |-> params, outcome |-> detectScript(params)] : params \in LimitDetectInputs}

\* A detectScript call, which runs to its end without suspending.
DetectScript(call) ==
    LET params == call.params
        outcome == call.outcome
    IN  /\ settled' = Some([proc |-> 0,
                            op |-> "detectScript",
                            params |-> params,
                            outcome |-> outcome,
                            via |-> "none",
                            results |-> <<>>,
                            stats |-> NoStats])
        /\ detected' = IF outcome.kind = "value"
                       THEN Some([text |-> params.text,
                                  result |-> outcome.value[1].val[1],
                                  repeated |-> detected # None /\ detected[1].text = params.text])
                       ELSE detected
        /\ engineCall' = None
        /\ UNCHANGED <<uromanInstance, uromanModule, initPromise, loadState, loadValue,
                       loadError, loadCount, cache, engineFailures, procs, puts, lastHit,
                       recency>>

\* detectScript calls between the steps of romanize calls that follow one
\* another.
NextDetect ==
    \/ (\E call \in DetectCalls : DetectScript(call)) /\ UNCHANGED adapterVars
    \/ (\E params \in DetectRomanizeInputs : Romanize(1, params)) /\ UNCHANGED adapterVars
    \/ LoadUromanResume /\ UNCHANGED adapterVars
    \/ GetUromanResume(1) /\ UNCHANGED adapterVars
    \/ InitPromiseResume(1) /\ UNCHANGED adapterVars
    \/ RomanizeResume(1) /\ UNCHANGED adapterVars
    \/ ResetCache /\ UNCHANGED adapterVars

SpecDetect == Init /\ [][NextDetect]_vars

\* ------------------------------------------- detectScript with its details
\* A Latin and a Cyrillic letter, a sign outside every range and a letter
\* outside the Basic Multilingual Plane.
DetailedAlphabet == {"a", "U+043C", "U+20AC", "U+10400"}

\* The empty text, every text of one or two of these characters, a text with
\* NUL, the longest text of Latin and of Cyrillic letters within the limit,
\* and a text that is too long.
DetailedTexts ==
    UNION {[1..n -> DetailedAlphabet] : n \in 0..2}
    \cup {<<"U+0000", "a">>}
    \cup {[i \in 1..maxTextLength |-> char] : char \in {"a", "U+043C"}}
    \cup {LongText}

DetailedInputs ==
    [text : DetailedTexts, language : {None}, format : {"undefined"}, texts : {<<>>},
     detailed : BOOLEAN]

DetailedCalls ==
    {[params |-> params, outcome |-> detectScript(params)] : params \in DetailedInputs}

\* detectScript calls, with and without `detailed`.
NextDetails ==
    (\E call \in DetailedCalls : DetectScript(call)) /\ UNCHANGED adapterVars

SpecDetails == Init /\ [][NextDetails]_vars

\* ------------------------------------------------ the limits of the inputs
\* An item that is longer than the schema of romanize_batch allows and as long
\* as validateInput allows.
LongItem == [i \in 1..(ItemMaxLength + 1) |-> "a"]

\* As many items as maxBatchSize allows.
FullTexts == [i \in 1..maxBatchSize |-> TextA]

LimitRomanizeInputs ==
    [text : {TextA, LongItem}, language : {None}, format : {"undefined"}, texts : {<<>>}]

LimitBatchInputs ==
    [text : {<<>>}, language : {None}, format : {"undefined"},
     texts : {NotAnArray, OversizedTexts, FullTexts, <<LongItem, TextA>>}]

\* Requests that follow one another, with inputs at and beyond the limits.
NextLimits ==
    \/ (\E params \in LimitRomanizeInputs : Romanize(1, params)) /\ UNCHANGED adapterVars
    \/ (\E params \in LimitBatchInputs : RomanizeBatch(1, params)) /\ UNCHANGED adapterVars
    \/ (\E call \in LimitDetectCalls : DetectScript(call)) /\ UNCHANGED adapterVars
    \/ BatchItem(1) /\ UNCHANGED adapterVars
    \/ LoadUromanResume /\ UNCHANGED adapterVars
    \/ GetUromanResume(1) /\ UNCHANGED adapterVars
    \/ InitPromiseResume(1) /\ UNCHANGED adapterVars
    \/ RomanizeResume(1) /\ UNCHANGED adapterVars
    \/ BatchYield(1) /\ UNCHANGED adapterVars
    \/ BatchReturn(1) /\ UNCHANGED adapterVars
    \/ ResetCache /\ UNCHANGED adapterVars

SpecLimits == Init /\ [][NextLimits]_vars

\* --------------------------------------------- overlapping calls, more keys
\* The texts of the calls of p: a text of p's own and one p shares with the
\* next process, so that calls for the same key overlap and the keys are more
\* than the cache holds.
CacheTexts(p) == {[i \in 1..n |-> "a"] : n \in {p, p + 1}}

CacheRomanizeInputs(p) ==
    [text : CacheTexts(p), language : {None}, format : {"undefined"}, texts : {<<>>}]

\* romanize calls that overlap, for more keys than the cache holds.
NextCache ==
    \/ (\E p \in Procs : \E params \in CacheRomanizeInputs(p) : Romanize(p, params))
          /\ UNCHANGED adapterVars
    \/ LoadUromanResume /\ UNCHANGED adapterVars
    \/ (\E p \in Procs : GetUromanResume(p)) /\ UNCHANGED adapterVars
    \/ (\E p \in Procs : InitPromiseResume(p)) /\ UNCHANGED adapterVars
    \/ (\E p \in Procs : RomanizeResume(p)) /\ UNCHANGED adapterVars

SpecCache == Init /\ [][NextCache]_vars

\* ------------------------------------------- texts that hold the separator
\* Texts with and without a colon, the empty text among them.
KeyTexts == {<<>>, <<"a">>, <<"a", ":">>}

\* No language, and a code that matches the pattern.
KeyLanguages == {None, Some(<<"u", "t", "o">>)}

KeyInputs == [text : KeyTexts, language : KeyLanguages, format : {"undefined"}, texts : {<<>>}]

\* romanize calls, one after another, for these texts and languages.
NextKeys ==
    \/ (\E params \in KeyInputs : Romanize(1, params)) /\ UNCHANGED adapterVars
    \/ LoadUromanResume /\ UNCHANGED adapterVars
    \/ GetUromanResume(1) /\ UNCHANGED adapterVars
    \/ InitPromiseResume(1) /\ UNCHANGED adapterVars
    \/ RomanizeResume(1) /\ UNCHANGED adapterVars

SpecKeys == Init /\ [][NextKeys]_vars

\* ------------------------------------------------- requests that must end
\* Overlapping requests under the scheduling of the event loop: a
\* continuation whose promise has settled runs, a timer that was set fires,
\* and the import of the engine and every engine call come to an end.
\* Process 1 makes romanizeBatch calls long enough to reach the yield of the
\* loop, the other processes make romanize calls.
FairRomanizeInputs ==
    [text : {TextA}, language : {None}, format : {"undefined"}, texts : {<<>>}]

FairBatchInputs ==
    [text : {<<>>}, language : {None}, format : {"undefined"}, texts : {FullTexts}]

NextFair ==
    \/ (\E p \in Procs \ {1} : \E params \in FairRomanizeInputs : Romanize(p, params))
          /\ UNCHANGED adapterVars
    \/ (\E params \in FairBatchInputs : RomanizeBatch(1, params)) /\ UNCHANGED adapterVars
    \/ BatchItem(1) /\ UNCHANGED adapterVars
    \/ LoadUromanResume /\ UNCHANGED adapterVars
    \/ (\E p \in Procs : GetUromanResume(p)) /\ UNCHANGED adapterVars
    \/ (\E p \in Procs : InitPromiseResume(p)) /\ UNCHANGED adapterVars
    \/ (\E p \in Procs : RomanizeResume(p)) /\ UNCHANGED adapterVars
    \/ BatchYield(1) /\ UNCHANGED adapterVars
    \/ BatchReturn(1) /\ UNCHANGED adapterVars

Fairness ==
    /\ WF_vars(BatchItem(1) /\ UNCHANGED adapterVars)
    /\ WF_vars(LoadUromanResume /\ UNCHANGED adapterVars)
    /\ WF_vars(BatchYield(1) /\ UNCHANGED adapterVars)
    /\ WF_vars(BatchReturn(1) /\ UNCHANGED adapterVars)
    /\ \A p \in Procs :
          /\ WF_vars(GetUromanResume(p) /\ UNCHANGED adapterVars)
          /\ WF_vars(InitPromiseResume(p) /\ UNCHANGED adapterVars)
          /\ WF_vars(RomanizeResume(p) /\ UNCHANGED adapterVars)

SpecFair == Init /\ [][NextFair]_vars /\ Fairness

\* ------------------------------------------- the Cloudflare Workers adapter
\* The values UROMAN_CACHE_SIZE is given: unset, '', '0', '2', '-1', 'abc'.
EnvCacheSizes == {None, Some(<<>>), Some(<<"0">>), Some(<<"2">>), Some(<<"-", "1">>),
                  Some(<<"a", "b", "c">>)}

\* '1000'
DefaultCacheSize == <<"1", "0", "0", "0">>

\* The config getUromanService passes to getInstance.
AdapterConfig(e) == UromanConfig(parseInt(IF Truthy(e) THEN e[1] ELSE DefaultCacheSize))

\* size and maxSize of getCacheStats()
getCacheStats == [size |-> Num(Len(cache)), maxSize |-> UromanService_instance[1].cacheSize]

\* The id of a request: None (no id), or the JSON text of its value.
Ids == {None, Some("7"), Some("\"a\"")}

AdapterArguments ==
    [text : {EmptyText, TextA, LongText}, language : {None}, format : {"undefined", "edges"}, texts : {<<>>}]

AdapterBatchArguments ==
    [text : {<<>>}, language : {None}, format : {"undefined"}, texts : {<<TextA, LongText>>}]

DetectArguments ==
    [text : {TextA, LongText}, language : {None}, format : {"undefined"}, texts : {<<>>},
     detailed : {FALSE}]

\* request.params of a tools/call: the tool and its arguments (None: no
\* arguments were given).
ToolCalls ==
    [name : {"romanize"}, arguments : {None} \cup {Some(a) : a \in AdapterArguments}]
    \cup [name : {"romanize_batch"}, arguments : {None} \cup {Some(a) : a \in AdapterBatchArguments}]
    \cup [name : {"detect_script"}, arguments : {None} \cup {Some(a) : a \in DetectArguments}]
    \cup [name : {"translate"}, arguments : {None}]

\* What the body of a POST is: text that is not JSON, the JSON values null
\* and 5, or an object with some of id, method and params.
Bodies ==
    [json : {"invalid", "null", "number"}, id : {None}, method : {None}, params : {None}]
    \cup [json : {"object"}, id : Ids,
          method : {Some("tools/list"), Some("tools/call"), Some("resources/list")},
          params : {None} \cup {Some(c) : c \in ToolCalls}]

HttpRequests ==
    [method : {"OPTIONS", "GET"}, body : {NoBody}] \cup [method : {"POST"}, body : Bodies]

\* A JSON-RPC error object.  code is the JSON text of the code (a number, or
\* a string in quotes), "absent" when the object has none.
ErrorObject(code, message, data) == [code |-> code, message |-> message, data |-> data]

\* An MCPResponse.  A field that is None is undefined, which JSON.stringify
\* leaves out.
MCPResponse(id, result, error) ==
    [jsonrpc |-> FALSE, id |-> id, result |-> result, error |-> error]

\* The catch block of handleMCPRequest that answers errors without an id.
McpErrorResponse_NoId(id, error) ==
    MCPResponse(None, None, Some(ErrorObject("\"-32603\"", error.message, None)))

\* The catch block of handleMCPRequest: every exception of the model is an
\* Error, so the message is error.message.
McpErrorResponse(id, error) ==
    MCPResponse(id, None, Some(ErrorObject("\"-32603\"", error.message, None)))

McpResult(id, type, val) == MCPResponse(id, Some([type |-> type, val |-> val]), None)

\* What handleRequest hands back: a Response (its status and the JSON value of
\* its body), or an exception it lets through.  request and caught record the
\* request it answers and the exception it answers for.
HttpResponse(request, status, body, caught) ==
    [kind |-> "response", request |-> request, status |-> status, body |-> body,
     caught |-> caught]

\* The outer catch block of handleRequest if it threw the exception on.
handleRequestCatch_Rethrow(request, error) ==
    [kind |-> "exception", request |-> request, status |-> 0, body |-> None,
     caught |-> Some(error)]

\* The outer catch block of handleRequest.
handleRequestCatch(request, error) ==
    HttpResponse(request, 500,
                 Some([jsonrpc |-> TRUE, id |-> Some("null"), result |-> None,
                       error |-> Some(ErrorObject("-32603", "Internal error",
                                                  Some(error.message)))]),
                 Some(error))

\* The answer to a body that is not JSON.
ParseErrorResponse(request) ==
    HttpResponse(request, 400,
                 Some([jsonrpc |-> TRUE, id |-> Some("null"), result |-> None,
                       error |-> Some(ErrorObject("-32700", "Parse error",
                                                  Some("Invalid JSON in request body")))]),
                 None)

\* The answer to a method other than POST and OPTIONS: { error: '...' }, the
\* error being a string.
MethodNotAllowedResponse(request) ==
    HttpResponse(request, 405,
                 Some([jsonrpc |-> FALSE, id |-> None, result |-> None,
                       error |-> Some(ErrorObject("absent", "Method not allowed", None))]),
                 None)

\* request.json() that never rejects.
ParseFails_Never(body) == FALSE

\* `await request.json()` rejects.
ParseFails(body) == body.json = "invalid"

\* A tool called without arguments: `params.text` (`params.texts`) throws a
\* TypeError; romanize throws another one in its catch block, romanizeBatch
\* and detectScript wrap it.
CallWithoutArguments(name) ==
    IF name = "romanize"
    THEN TypeError("Cannot read properties of undefined (reading 'text')")
    ELSE IF name = "romanize_batch"
    THEN MCPError(ERROR_CODES.ROMANIZATION_FAILED, "Failed to process batch", "TypeError")
    ELSE MCPError(ERROR_CODES.INTERNAL_ERROR, "Failed to detect script", "TypeError")

\* handleMCPRequest up to its return or its first call that suspends:
\*   escape  - the exception leaves handleMCPRequest
\*   respond - it returns mcp (caught: what its catch block caught)
\*   call    - it awaits romanize or romanizeBatch with arguments
Dispatch(body) ==
    LET escape(e) == [kind |-> "escape", error |-> Some(e), mcp |-> None,
                      name |-> "none", arguments |-> NoParams]
        respond(r, c) == [kind |-> "respond", error |-> c, mcp |-> Some(r),
                          name |-> "none", arguments |-> NoParams]
        failed(e) == respond(McpErrorResponse(body.id, e), Some(e))
        call(n, a) == [kind |-> "call", error |-> None, mcp |-> None,
                       name |-> n, arguments |-> a]
    IN  IF body.json = "null"
        THEN escape(TypeError("Cannot read properties of null (reading 'id')"))
        ELSE IF body.method = Some("tools/call")
        THEN IF body.params = None
             THEN failed(TypeError("Cannot destructure property 'name' of 'request.params'"))
             ELSE LET name == body.params[1].name
                      args == body.params[1].arguments
                  IN  IF name \notin {"romanize", "romanize_batch", "detect_script"}
                      THEN failed(Error("Unknown tool"))
                      ELSE IF args = None THEN failed(CallWithoutArguments(name))
                      ELSE IF name = "detect_script"
                      THEN LET outcome == detectScript(args[1])
                           IN  IF outcome.kind = "error" THEN failed(outcome.error[1])
                               ELSE respond(McpResult(body.id, "json", <<>>), None)
                      ELSE call(name, args[1])
        ELSE IF body.method = Some("tools/list")
        THEN respond(McpResult(body.id, "tools",
                               <<"romanize", "romanize_batch", "detect_script">>), None)
        ELSE failed(Error("Unsupported method"))

\* What handleMCPRequest returns when the romanize or romanizeBatch call it
\* awaited has settled as s.
ToolResponse(id, s) ==
    IF s.outcome.kind = "error" THEN McpErrorResponse(id, s.outcome.error[1])
    ELSE IF s.op = "batch" THEN McpResult(id, "json", s.results)
    ELSE IF s.outcome.value[1].type = "string" THEN McpResult(id, "text", s.outcome.value[1].val)
    ELSE McpResult(id, "text", <<"[", "]">>)

\* The fields of the service other than the records of the last step.
serviceVars == <<uromanInstance, uromanModule, initPromise, loadState, loadValue, loadError,
                 loadCount, cache, engineFailures, procs, puts, lastHit, recency, detected>>

\* A step in which no call on the service runs.
NoServiceStep ==
    /\ settled' = None
    /\ engineCall' = None
    /\ UNCHANGED serviceVars

\* handleRequest(request) up to `await request.json()`.
HandleRequest(request) ==
    /\ http.pc = "idle"
    /\ IF request.method = "OPTIONS"
       THEN /\ response' = Some(HttpResponse(request, 200, None, None))
            /\ http' = HttpIdle
       ELSE IF request.method # "POST"
       THEN /\ response' = Some(MethodNotAllowedResponse(request))
            /\ http' = HttpIdle
       ELSE /\ response' = None
            /\ http' = [pc |-> "json_await", request |-> request]
    /\ NoServiceStep
    /\ UNCHANGED <<env, UromanService_instance, uromanService>>

\* getUromanService()
GetUromanService ==
    /\ UromanService_instance' = IF uromanService THEN UromanService_instance
                                 ELSE getInstance(UromanService_instance, AdapterConfig(env))
    /\ uromanService' = TRUE

\* request.json() has settled: the parse error, or getUromanService and
\* handleMCPRequest up to its return or to the call it awaits.  (A return of
\* handleMCPRequest and the Response built from it are one step.)
JsonResume ==
    /\ http.pc = "json_await"
    /\ LET request == http.request
           d == Dispatch(request.body)
       IN  IF ParseFails(request.body)
           THEN /\ response' = Some(ParseErrorResponse(request))
                /\ http' = HttpIdle
                /\ NoServiceStep
                /\ UNCHANGED <<UromanService_instance, uromanService>>
           ELSE /\ GetUromanService
                /\ CASE d.kind = "escape" ->
                          /\ response' = Some(handleRequestCatch(request, d.error[1]))
                          /\ http' = HttpIdle
                          /\ NoServiceStep
                     [] d.kind = "respond" ->
                          /\ response' = Some(HttpResponse(request, 200, d.mcp, d.error))
                          /\ http' = HttpIdle
                          /\ NoServiceStep
                     [] d.kind = "call" /\ d.name = "romanize" ->
                          /\ response' = None
                          /\ http' = [http EXCEPT !.pc = "tool_await"]
                          /\ Romanize(1, d.arguments)
                     [] d.kind = "call" /\ d.name = "romanize_batch" ->
                          /\ response' = None
                          /\ http' = [http EXCEPT !.pc = "tool_await"]
                          /\ RomanizeBatch(1, d.arguments)
    /\ env' = env

\* The romanize or romanizeBatch call handleMCPRequest awaited has settled:
\* handleMCPRequest returns and handleRequest builds the Response.
ToolResume ==
    /\ http.pc = "tool_await"
    /\ settled # None
    /\ settled[1].op \in {"romanize", "batch"}
    /\ LET request == http.request
           s == settled[1]
       IN  response' = Some(HttpResponse(request, 200,
                                         Some(ToolResponse(request.body.id, s)),
                                         s.outcome.error))
    /\ http' = HttpIdle
    /\ NoServiceStep
    /\ UNCHANGED <<env, UromanService_instance, uromanService>>

\* An adapter in a fresh process, for some value of UROMAN_CACHE_SIZE.
InitAdapter ==
    /\ ServiceInit
    /\ env \in EnvCacheSizes
    /\ UromanService_instance = None
    /\ uromanService = FALSE
    /\ http = HttpIdle
    /\ response = None

\* Requests handled by the adapter, one after another.
NextAdapter ==
    \/ \E request \in HttpRequests : HandleRequest(request)
    \/ JsonResume
    \/ ToolResume
    \/ BatchItem(1) /\ UNCHANGED adapterVars
    \/ LoadUromanResume /\ UNCHANGED adapterVars
    \/ GetUromanResume(1) /\ UNCHANGED adapterVars
    \/ InitPromiseResume(1) /\ UNCHANGED adapterVars
    \/ RomanizeResume(1) /\ UNCHANGED adapterVars
    \/ BatchReturn(1) /\ UNCHANGED adapterVars

SpecAdapter == InitAdapter /\ [][NextAdapter]_vars

\* ------------------------------------------- several adapters in a process
\* `new CloudflareAdapter(env)`, as the fetch entry point does for each
\* request: the adapter that handles the requests from now on.
NewAdapter(e) ==
    /\ http.pc = "idle"
    /\ env' = e
    /\ uromanService' = FALSE
    /\ response' = None
    /\ NoServiceStep
    /\ UNCHANGED <<UromanService_instance, http>>

\* A body that is not JSON, tools/list, and a romanize call.
FewHttpRequests ==
    {request \in HttpRequests :
        /\ request.method = "POST"
        /\ request.body.id = (IF request.body.json = "object" THEN Some("7") ELSE None)
        /\ \/ request.body.json = "invalid"
           \/ request.body.method = Some("tools/list") /\ request.body.params = None
           \/ /\ request.body.method = Some("tools/call")
              /\ request.body.params
                    = Some([name |-> "romanize",
                            arguments |-> Some([text |-> TextA, language |-> None,
                                                format |-> "undefined", texts |-> <<>>])])}

\* Adapters constructed one after another, each handling requests.
NextAdapters ==
    \/ \E e \in EnvCacheSizes : NewAdapter(e)
    \/ \E request \in FewHttpRequests : HandleRequest(request)
    \/ JsonResume
    \/ ToolResume
    \/ LoadUromanResume /\ UNCHANGED adapterVars
    \/ GetUromanResume(1) /\ UNCHANGED adapterVars
    \/ InitPromiseResume(1) /\ UNCHANGED adapterVars
    \/ RomanizeResume(1) /\ UNCHANGED adapterVars

SpecAdapters == InitAdapter /\ [][NextAdapters]_vars

\* ================================================================ claims
KeySeq(c) == [i \in 1..Len(c) |-> c[i].key]

IsRomanizeCall(s) == s # None /\ s[1].op \in {"romanize", "item"}

ErrorCode(s) == s[1].outcome.error[1].code

\* C1: romanize calls (single calls or batch items) started in any interleaving
\* while the engine is not initialized run loadUroman exactly once, and every
\* call that holds or uses an engine instance holds or uses the same one.
Thm_C1 ==
    /\ loadCount <= 1
    /\ \A p \in Procs : procs[p].via \in {"load", "pending"} => loadCount = 1
    /\ \A p, q \in Procs : (procs[p].uroman # None /\ procs[q].uroman # None)
                               => procs[p].uroman = procs[q].uroman
    /\ \A p \in Procs : procs[p].uroman # None => procs[p].uroman = uromanInstance
    /\ engineCall # None => Some(engineCall[1].instance) = uromanInstance

\* Two calls that both started cold, one that started the initialization and
\* one that waited for it, both hold the instance.
Wit_C1 ==
    \E p, q \in Procs :
        /\ procs[p].via = "load" /\ procs[p].pc = "romanize_resume"
        /\ procs[q].via = "pending" /\ procs[q].pc = "romanize_resume"
        /\ procs[p].uroman = procs[q].uroman
        /\ loadCount = 1

\* C2 (as claimed): once a plain romanize call has returned a value, an
\* identical call issued next returns that value from the cache and does not
\* go on to the engine.
Cex_C2 ==
    (/\ settled # None
     /\ settled[1].op = "romanize"
     /\ IsPlain(settled[1].params)
     /\ settled[1].outcome.kind = "value")
    => romanizeSync(settled[1].params, cache) = settled[1].outcome

\* C3: a romanize call whose text is longer than maxTextLength fails with
\* TEXT_TOO_LONG in the step that started it; that step starts no engine
\* initialization, makes no engine call and leaves the cache as it was.
Thm_C3 ==
    [][(IsRomanizeCall(settled') /\ Len(settled'[1].params.text) > maxTextLength)
       => /\ settled'[1].outcome.kind = "error"
          /\ ErrorCode(settled') = ERROR_CODES.TEXT_TOO_LONG
          /\ settled'[1].via = "none"
          /\ cache' = cache
          /\ engineCall' = None
          /\ loadCount' = loadCount
          /\ initPromise' = initPromise
          /\ uromanInstance' = uromanInstance]_vars

\* A too long text was rejected while the cache held entries.
Wit_C3 ==
    /\ IsRomanizeCall(settled)
    /\ Len(settled[1].params.text) > maxTextLength
    /\ settled[1].outcome.kind = "error"
    /\ cache # <<>>

\* A string was given as language code and does not match ^[a-z]{3}$.
BadLanguage(language) == language # None /\ ~MatchesLanguagePattern(language[1])

\* C4 (as claimed): no romanize or romanizeBatch call whose language code is a
\* string not matching ^[a-z]{3}$ gets past validation, and such a call
\* (its text or batch size being acceptable) fails with INVALID_LANGUAGE_CODE.
Cex_C4 ==
    /\ \A p \in Procs : procs[p].op \in {"romanize", "batch"}
                           => ~BadLanguage(procs[p].params.language)
    /\ (/\ settled # None
        /\ settled[1].op \in {"romanize", "batch"}
        /\ BadLanguage(settled[1].params.language)
        /\ Len(settled[1].params.text) <= maxTextLength
        /\ Len(settled[1].params.texts) <= maxBatchSize)
       => (/\ settled[1].outcome.kind = "error"
           /\ ErrorCode(settled) = ERROR_CODES.INVALID_LANGUAGE_CODE)

\* C5: after cacheSize + 1 distinct keys were stored into the cleared cache,
\* the key stored first is gone, the cacheSize keys stored after it are all
\* there, and nothing else is.
Thm_C5 ==
    (PutsValid /\ Len(puts) = cacheSize + 1)
    => /\ puts[1] \notin CacheKeys(cache)
       /\ \A i \in 2..Len(puts) : puts[i] \in CacheKeys(cache)
       /\ Len(cache) = cacheSize

Wit_C5 == PutsValid /\ Len(puts) = cacheSize + 1 /\ cacheSize >= 1

\* C6: a romanize call that fails leaves the cache as it was in the step that
\* ends it, and after an engine failure an identical request finds nothing
\* stored for it and goes on to the engine again.
Thm_C6 ==
    [][(IsRomanizeCall(settled') /\ settled'[1].outcome.kind = "error")
       => /\ cache' = cache
          /\ ErrorCode(settled') = ERROR_CODES.ROMANIZATION_FAILED
               => romanizeSync(settled'[1].params, cache') = Pending]_vars

\* The engine threw while the cache held entries.
Wit_C6 ==
    /\ IsRomanizeCall(settled)
    /\ settled[1].outcome.kind = "error"
    /\ ErrorCode(settled) = ERROR_CODES.ROMANIZATION_FAILED
    /\ engineCall # None
    /\ cache # <<>>

\* The results entry a failed item must have.
IsFallback(result, text) ==
    /\ result.original = text
    /\ result.romanized = text
    /\ result.error # None

BatchAccepted(params) ==
    Len(params.texts) <= maxBatchSize /\ validateLanguageCode(params.language) = None

\* C7: an item of a batch that fails (in validation, in the engine or in the
\* engine initialization) is pushed as success = FALSE with its own text and
\* an error message and the loop goes on; the accepted batch returns a result
\* with an entry for every item.
Thm_C7 ==
    /\ \A p \in Procs : \A i \in 1..Len(procs[p].results) :
          ~procs[p].results[i].success
             => IsFallback(procs[p].results[i], procs[p].params.texts[i])
    /\ (settled # None /\ settled[1].op = "item" /\ settled[1].outcome.kind = "error")
       => LET rec == procs[settled[1].proc]
          IN  /\ rec.op = "batch"
              /\ rec.idx = Len(rec.results)
              /\ ~rec.results[rec.idx].success
              /\ rec.pc \in {"batch_item", "batch_yield", "batch_return"}
              /\ rec.pc = "batch_return" => rec.idx = Len(rec.params.texts)
    /\ (settled # None /\ settled[1].op = "batch" /\ BatchAccepted(settled[1].params))
       => /\ settled[1].outcome.kind = "value"
          /\ Len(settled[1].results) = Len(settled[1].params.texts)
          /\ \A i \in 1..Len(settled[1].results) :
                ~settled[1].results[i].success
                   => IsFallback(settled[1].results[i], settled[1].params.texts[i])

\* A batch returned whose first item failed and whose second item succeeded.
Wit_C7 ==
    /\ settled # None
    /\ settled[1].op = "batch"
    /\ settled[1].outcome.kind = "value"
    /\ Len(settled[1].results) >= 2
    /\ ~settled[1].results[1].success
    /\ settled[1].results[2].success

\* C8: what an accepted romanizeBatch call returns has one entry for every
\* text, in order, entry i with index i and the i-th text as original, and
\* stats that count them, whatever other requests did in between.
Thm_C8 ==
    (settled # None /\ settled[1].op = "batch" /\ settled[1].outcome.kind = "value")
    => LET texts == settled[1].params.texts
           results == settled[1].results
           stats == settled[1].stats
       IN  /\ Len(results) = Len(texts)
           /\ \A i \in 1..Len(results) : /\ results[i].index = i - 1
                                          /\ results[i].original = texts[i]
           /\ stats.total = Len(texts)
           /\ stats.successful = Cardinality({i \in 1..Len(results) : results[i].success})
           /\ stats.successful + stats.failed = Len(texts)

\* A batch with failed and successful items returned while another request
\* was in flight.
Wit_C8 ==
    /\ settled # None
    /\ settled[1].op = "batch"
    /\ settled[1].outcome.kind = "value"
    /\ settled[1].stats.successful > 0
    /\ settled[1].stats.failed > 0
    /\ \E q \in Procs : q # settled[1].proc /\ procs[q].pc # "idle"

\* The state of a client whose initialization failed.
FailedForGood ==
    loadState = "rejected"
    => /\ loadCount = 1
       /\ uromanInstance = None
       /\ engineCall = None
       /\ \A p \in Procs : procs[p].pc # "romanize_resume" /\ procs[p].uroman = None
       /\ (IsRomanizeCall(settled) /\ settled[1].via # "none")
          => settled[1].outcome = Thrown(loadError[1])

\* C9: once the engine initialization has failed it stays failed with the
\* same error, no call starts another initialization or reaches the engine,
\* and every call that needs the engine fails with that error.
Thm_C9 ==
    [][/\ loadState = "rejected" => (loadState' = "rejected" /\ loadError' = loadError)
       /\ FailedForGood']_vars

\* A call that started after the initialization had failed was failed with
\* the error of that initialization.
Wit_C9 ==
    /\ loadState = "rejected"
    /\ IsRomanizeCall(settled)
    /\ settled[1].via = "rejected"
    /\ settled[1].outcome = Thrown(loadError[1])

Cex_C11 ==
    PutsValid => CacheKeys(cache) = {recency[i] : i \in 1..Len(recency)}

\* The key romanize stores the result of the call s under.
StoreKey(s) == generateCacheKey(s[1].params.text, s[1].params.language, Some(STR))

\* The step stored the result of a romanize call in the cache.
IsStore(s, call) ==
    /\ IsRomanizeCall(s)
    /\ IsStored(s[1].outcome)
    /\ call # None
    /\ call[1].method = "romanize_string"

\* C12 (as claimed): a store under a key the cache already holds only replaces
\* the value: no entry is evicted, the size and the order of the keys stay
\* as they were, also when the cache is full.
Cex_C12 ==
    [][(IsStore(settled', engineCall') /\ StoreKey(settled') \in CacheKeys(cache))
       => KeySeq(cache') = KeySeq(cache)]_vars

\* C13 (as claimed): whatever capacity the adapter derives from
\* UROMAN_CACHE_SIZE, a cache that holds entries never holds more of them
\* than the maxSize getCacheStats reports.
Cex_C13 ==
    (UromanService_instance # None /\ cache # <<>>)
    => GreaterEq(getCacheStats.maxSize, getCacheStats.size)

IsEdgesCall(s) == s # None /\ s[1].op = "romanize" /\ s[1].params.format = "edges"

\* C14: a romanize call with format 'edges' never touches the cache: the step
\* that starts it and the step that ends it leave the cache as it was, and
\* when it returns a value that value was produced by the engine in that
\* step, called for the edges of its text, whatever the cache holds.
Thm_C14 ==
    [][/\ IsEdgesCall(settled')
          => /\ cache' = cache
             /\ settled'[1].outcome.kind = "value"
                  => /\ engineCall' # None
                     /\ engineCall'[1].method = "romanize_string"
                     /\ engineCall'[1].format = "EDGES"
                     /\ engineCall'[1].text = settled'[1].params.text
                     /\ settled'[1].outcome.value[1].type = "array"
       /\ \A p \in Procs :
             (procs'[p] # procs[p] /\ procs'[p].op = "romanize"
                 /\ procs'[p].params.format = "edges")
             => cache' = cache]_vars

\* An edges call returned the engine's edges while the plain result for its
\* text and language was in the cache.
Wit_C14 ==
    /\ IsEdgesCall(settled)
    /\ settled[1].outcome.kind = "value"
    /\ engineCall # None
    /\ Truthy(cacheGet(cache, StoreKey(settled)))

\* C15 (as claimed): batch results are not cached: a step of a romanizeBatch
\* call that ends one of its items leaves the cache as it was, and a key
\* enters the cache only in a step that ends a single plain romanize call.
Cex_C15 ==
    [][/\ (settled' # None /\ settled'[1].op = "item") => cache' = cache
       /\ \/ CacheKeys(cache') \subseteq CacheKeys(cache)
          \/ (settled' # None /\ settled'[1].op = "romanize" /\ IsPlain(settled'[1].params))]_vars

\* The failures with a kind of their own: the MCPErrors of validation and of
\* the engine, an unknown tool, an unknown method.
HasOwnKind(e) ==
    e.code \in {ERROR_CODES.INVALID_INPUT, ERROR_CODES.TEXT_TOO_LONG,
                ERROR_CODES.INVALID_LANGUAGE_CODE, ERROR_CODES.ROMANIZATION_FAILED,
                "Error"}

\* The error object of the response of the last step.
ResponseError == response[1].body[1].error[1]

\* C16 (as claimed): an error response for a failure with a kind of its own
\* does not carry the code of an internal error, and an unknown method is
\* answered with the code -32601.
Cex_C16 ==
    (/\ response # None
     /\ response[1].request.body.json = "object"
     /\ response[1].caught # None
     /\ HasOwnKind(response[1].caught[1]))
    => /\ ResponseError.code \notin {"-32603", "\"-32603\""}
       /\ response[1].caught[1] = Error("Unsupported method") => ResponseError.code = "-32601"

\* C17: the response to a request that parsed to an object with an id carries
\* that id, whether it reports a result or an error.
Thm_C17 ==
    (/\ response # None
     /\ response[1].request.body.json = "object"
     /\ response[1].request.body.id # None)
    => /\ response[1].kind = "response"
       /\ response[1].body # None
       /\ response[1].body[1].id = response[1].request.body.id

\* A tool call with an id was answered with the error of the service.
Wit_C17 ==
    /\ response # None
    /\ response[1].request.body.id = Some("7")
    /\ response[1].caught # None
    /\ response[1].caught[1].code = ERROR_CODES.TEXT_TOO_LONG
    /\ response[1].body[1].id = Some("7")

\* C18: whatever the body of a POST is, what handleRequest hands back is a
\* Response, never an exception, and its body has a result or an error and
\* not both.
Thm_C18 ==
    (response # None /\ response[1].request.method = "POST")
    => /\ response[1].kind = "response"
       /\ response[1].body # None
       /\ (response[1].body[1].result # None) # (response[1].body[1].error # None)

\* A body that parsed to null, whose exception left handleMCPRequest, was
\* answered with an error by the outer catch block.
Wit_C18 ==
    /\ response # None
    /\ response[1].request.method = "POST"
    /\ response[1].request.body.json = "null"
    /\ response[1].status = 500
    /\ response[1].body[1].error # None

\* C19 (as claimed): when the exception a response answers for is none the
\* code throws on purpose (a TypeError), its message is copied neither into
\* the message nor into the data of the error object.
Cex_C19 ==
    (response # None /\ response[1].caught # None /\ response[1].caught[1].code = "TypeError")
    => /\ ResponseError.message # response[1].caught[1].message
       /\ ResponseError.data # Some(response[1].caught[1].message)

\* The response of the last step answers a POST whose body is not JSON.
AnswersInvalidJson(r) ==
    r # None /\ r[1].request.method = "POST" /\ r[1].request.body.json = "invalid"

\* C20: a POST whose body is not JSON is answered with a Response of status
\* 400 whose error has the code -32700, in a step that neither obtains nor
\* constructs the service, starts no call on it, makes no engine call and
\* leaves the engine and the cache as they were.
Thm_C20 ==
    [][AnswersInvalidJson(response')
       => /\ response'[1].kind = "response"
          /\ response'[1].status = 400
          /\ response'[1].body # None
          /\ response'[1].body[1].result = None
          /\ response'[1].body[1].error # None
          /\ response'[1].body[1].error[1].code = "-32700"
          /\ UromanService_instance' = UromanService_instance
          /\ uromanService' = uromanService
          /\ engineCall' = None
          /\ settled' = None
          /\ UNCHANGED serviceVars]_vars

\* Invalid JSON was answered in a process that has not constructed the
\* service.
Wit_C20 ==
    /\ AnswersInvalidJson(response)
    /\ response[1].status = 400
    /\ UromanService_instance = None
    /\ ~uromanService

\* ------------------------------------------------------ detectScript claims
\* The detectScript call that returned in the last step.
DetectReturned ==
    /\ settled # None
    /\ settled[1].op = "detectScript"
    /\ settled[1].outcome.kind = "value"

DetectedText == settled[1].params.text

DetectedResult == settled[1].outcome.value[1].val[1]

\* The positions of text whose character is counted for the script name.
PositionsOf(text, name) == {i \in 1..Len(text) : CountedFor(text[i]) = Some(name)}

\* The scripts observed in text.
ObservedScripts(text) ==
    {CountedFor(text[i])[1] : i \in {j \in 1..Len(text) : CountedFor(text[j]) # None}}

FirstOccurrence(text, name) ==
    CHOOSE i \in PositionsOf(text, name) : \A j \in PositionsOf(text, name) : i <= j

LettersOf(text, name) == {i \in PositionsOf(text, name) : IsLetter(text[i])}

\* C22: every percentage is an integer in 0..100, round(100 * characterCount
\* / total), where characterCount is the number of letters of the script and
\* total the number of classified letters: a character that is not a letter
\* is counted for no script.
Cex_C22 ==
    DetectReturned =>
        LET text == DetectedText
            scripts == DetectedResult.scripts
            total == Cardinality({i \in 1..Len(text) :
                                    IsLetter(text[i]) /\ CountedFor(text[i]) # None})
        IN  \A k \in 1..Len(scripts) :
               scripts[k].name # "Unknown" =>
                  /\ scripts[k].percentage \in 0..100
                  /\ scripts[k].characterCount = Cardinality(LettersOf(text, scripts[k].name))
                  /\ total > 0
                  /\ scripts[k].percentage = (200 * scripts[k].characterCount + total) \div (2 * total)

Cex_C24 ==
    /\ (/\ settled # None
        /\ settled[1].op = "item"
        /\ Len(settled[1].params.text) > ItemMaxLength)
       => /\ engineCall = None
          /\ settled[1].outcome.kind = "error"
    /\ (settled # None /\ settled[1].op = "batch")
       => \A i \in 1..Len(settled[1].results) :
             Len(settled[1].results[i].original) > ItemMaxLength
                => ~settled[1].results[i].success

\* C25: a detectScript call whose text is longer than the limit of
\* detect_script throws TEXT_TOO_LONG and returns no classification.
Cex_C25 ==
    (/\ settled # None
     /\ settled[1].op = "detectScript"
     /\ Len(settled[1].params.text) > DetectMaxLength)
    => /\ settled[1].outcome.kind = "error"
       /\ settled[1].outcome.error[1].code = ERROR_CODES.TEXT_TOO_LONG

\* texts is not an array or has more than maxBatchSize items.
BadTexts(texts) == texts = NotAnArray \/ Len(texts) > maxBatchSize

\* C26: a romanizeBatch call whose texts is not an array or has more than
\* maxBatchSize items throws INVALID_INPUT in the step it is called in, which
\* starts no item, makes no engine call and leaves the engine, its
\* initialization and the cache as they were; no such batch is ever in
\* flight; and a batch of exactly maxBatchSize items (with a valid language)
\* does not throw but returns a result for each of its items.
Thm_C26 ==
    [][/\ \A p \in Procs : procs'[p].op = "batch" => ~BadTexts(procs'[p].params.texts)
       /\ (/\ settled' # None
           /\ settled'[1].op = "batch"
           /\ BadTexts(settled'[1].params.texts))
          => /\ settled'[1].outcome.kind = "error"
             /\ settled'[1].outcome.error[1].code = ERROR_CODES.INVALID_INPUT
             /\ settled'[1].results = <<>>
             /\ procs' = procs
             /\ procs[settled'[1].proc].pc = "idle"
             /\ engineCall' = None
             /\ UNCHANGED <<uromanInstance, uromanModule, initPromise, loadState, loadValue,
                            loadError, loadCount, cache, engineFailures>>
       /\ (/\ settled' # None
           /\ settled'[1].op = "batch"
           /\ settled'[1].params.texts # NotAnArray
           /\ Len(settled'[1].params.texts) = maxBatchSize
           /\ validateLanguageCode(settled'[1].params.language) = None)
          => /\ settled'[1].outcome.kind = "value"
             /\ Len(settled'[1].results) = maxBatchSize]_vars

\* A call whose texts is not an array was rejected while the cache held an
\* entry.
Wit_C26 ==
    /\ settled # None
    /\ settled[1].op = "batch"
    /\ settled[1].params.texts = NotAnArray
    /\ settled[1].outcome.kind = "error"
    /\ cache # <<>>

\* C27: a romanize call with the empty text throws, and it does so before
\* the cache is looked up and without an engine call.
Cex_C27 ==
    (/\ settled # None
     /\ settled[1].op = "romanize"
     /\ settled[1].params.text = EmptyText)
    => /\ settled[1].outcome.kind = "error"
       /\ settled[1].via = "none"
       /\ engineCall = None

\* C27, amended: romanize accepts the texts of 0..maxTextLength characters.
\* A longer text is rejected with TEXT_TOO_LONG before the cache lookup and
\* without an engine call; a text within the limit, the empty one included,
\* is never rejected for its text (it fails only for its language code, the
\* engine initialization or the engine), and the empty text that the engine
\* romanizes gives the empty string.
Thm_C27 ==
    (settled # None /\ settled[1].op = "romanize") =>
        LET call == settled[1]
        IN  /\ Len(call.params.text) > maxTextLength
               => /\ call.outcome.kind = "error"
                  /\ call.outcome.error[1].code = ERROR_CODES.TEXT_TOO_LONG
                  /\ call.via = "none"
                  /\ engineCall = None
            /\ (Len(call.params.text) <= maxTextLength /\ call.outcome.kind = "error")
               => call.outcome.error[1].code
                     \in {ERROR_CODES.INVALID_LANGUAGE_CODE, ERROR_CODES.INTERNAL_ERROR,
                          ERROR_CODES.ROMANIZATION_FAILED}
            /\ (/\ call.params.text = EmptyText
                /\ call.outcome.kind = "value"
                /\ call.outcome.value[1].type = "string")
               => call.outcome.value[1].val = <<>>

\* The empty text was given to the engine and its romanization returned.
Wit_C27 ==
    /\ settled # None
    /\ settled[1].op = "romanize"
    /\ settled[1].params.text = EmptyText
    /\ settled[1].outcome.kind = "value"
    /\ engineCall # None
    /\ engineCall[1].text = EmptyText

\* C28: when the engine's romanize_string throws, the romanize call (a
\* single call or the call for an item of a batch) throws ROMANIZATION_FAILED
\* whose cause is the exception of the engine and whose text is a prefix of
\* the text of the call of at most DiagnosticLength characters.
Thm_C28 ==
    (engineCall # None /\ engineCall[1].thrown # None) =>
        /\ settled # None
        /\ settled[1].op \in {"romanize", "item"}
        /\ settled[1].params.text = engineCall[1].text
        /\ settled[1].outcome.kind = "error"
        /\ LET error == settled[1].outcome.error[1]
           IN  /\ error.code = ERROR_CODES.ROMANIZATION_FAILED
               /\ error.cause = engineCall[1].thrown[1].message
               /\ error.text # None
               /\ Len(error.text[1]) <= DiagnosticLength
               /\ Len(error.text[1]) <= Len(engineCall[1].text)
               /\ error.text[1] = SubSeq(engineCall[1].text, 1, Len(error.text[1]))

\* The engine threw for a text that is longer than what the error keeps.
Wit_C28 ==
    /\ engineCall # None
    /\ engineCall[1].thrown # None
    /\ Len(engineCall[1].text) > DiagnosticLength
    /\ settled # None
    /\ settled[1].outcome.kind = "error"
    /\ settled[1].outcome.error[1].text # None

\* C29: the step in which resetCache returns leaves the cache empty; it
\* calls reset_cache on the engine when there is one and makes no engine call
\* otherwise; it leaves the engine, its initialization, the requests in
\* flight and the configured capacity as they were.  No other step (of
\* romanize, romanizeBatch or detectScript) calls reset_cache or empties a
\* cache that holds an entry.
Thm_C29 ==
    [][/\ (settled' # None /\ settled'[1].op = "resetCache")
          => /\ cache' = <<>>
             /\ uromanInstance # None
                => /\ engineCall' # None
                   /\ engineCall'[1].method = "reset_cache"
                   /\ engineCall'[1].instance = uromanInstance[1]
             /\ uromanInstance = None => engineCall' = None
             /\ UNCHANGED <<uromanInstance, uromanModule, initPromise, loadState, loadValue,
                            loadError, loadCount, procs, UromanService_instance>>
       /\ (settled' = None \/ settled'[1].op # "resetCache")
          => /\ engineCall' # None => engineCall'[1].method # "reset_cache"
             /\ cache # <<>> => cache' # <<>>]_vars

\* resetCache returned with the engine ready, whose cache it has reset, after
\* detectScript had been called.
Wit_C29 ==
    /\ settled # None
    /\ settled[1].op = "resetCache"
    /\ engineCall # None
    /\ engineCall[1].method = "reset_cache"
    /\ cache = <<>>
    /\ detected # None

\* ------------------------------------------- claims on several adapters
\* C30: when an adapter constructed with UROMAN_CACHE_SIZE = c, a number,
\* has answered a request for which it obtained the service,
\* getCacheStats().maxSize is c.
Cex_C30 ==
    (/\ response # None
     /\ uromanService
     /\ Truthy(env)
     /\ ~AdapterConfig(env).cacheSize.isNaN)
    => getCacheStats.maxSize = AdapterConfig(env).cacheSize

\* ------------------------------------------------- core dispatcher claims
\* The methods setupHandlers registers a request handler for: ListTools,
\* CallTool, ListResources and ReadResource.
setupHandlers == {"tools/list", "tools/call", "resources/list", "resources/read"}

\* handleRomanize: the ToolResult of the core dispatcher for the value romanize
\* returned.
handleRomanize(params, value) ==
    IF params.format = "edges" THEN [type |-> "json", val |-> value.val]
    ELSE [type |-> "text", val |-> value.val]

\* The romanize call the adapter awaits returned a value in the last step.
AdapterRomanizeReturned ==
    /\ http.pc = "tool_await"
    /\ settled # None
    /\ settled[1].op = "romanize"
    /\ settled[1].outcome.kind = "value"

\* C31 (as claimed): the adapter serves every method the core dispatcher
\* serves, and the result it returns for a romanize call is the ToolResult of
\* the core dispatcher for the value the service returned.
Cex_C31 ==
    [][/\ (/\ response' # None
           /\ response'[1].request.body.json = "object"
           /\ response'[1].request.body.method # None
           /\ response'[1].request.body.method[1] \in setupHandlers)
          => response'[1].caught # Some(Error("Unsupported method"))
       /\ (AdapterRomanizeReturned /\ response' # None)
          => response'[1].body[1].result
                = Some(handleRomanize(settled[1].params, settled[1].outcome.value[1]))]_vars

\* ------------------------------------------------------- lifecycle claims
\* The lifecycle state of the service, as getUroman tells it apart: an engine
\* instance (ready), no initialization promise (uninitialized), a promise that
\* is pending (initializing) or one that was rejected (failed).
Lifecycle ==
    IF uromanInstance # None THEN "ready"
    ELSE IF initPromise = None THEN "uninitialized"
    ELSE IF loadState = "pending" THEN "initializing"
    ELSE "failed"

LifecycleEdges ==
    {<<"uninitialized", "initializing">>, <<"initializing", "ready">>,
     <<"initializing", "failed">>}

\* The calls that run loadUroman or wait for it.
Loaders == {p \in Procs : procs[p].pc = "getUroman_await"}

Waiters == {p \in Procs : procs[p].pc = "initPromise_await"}

\* C32: the lifecycle state changes along uninitialized -> initializing ->
\* ready and initializing -> failed only, so ready and failed are never left,
\* whatever step is taken (resetCache included); loadUroman is started only by
\* the step from uninitialized to initializing, and a call that gets to
\* getUroman during initializing becomes a waiter of the initialization in
\* flight and starts none.
Thm_C32 ==
    [][/\ Lifecycle' # Lifecycle => <<Lifecycle, Lifecycle'>> \in LifecycleEdges
       /\ loadCount' # loadCount
          => /\ Lifecycle = "uninitialized"
             /\ Lifecycle' = "initializing"
             /\ loadCount' = loadCount + 1
       /\ (Lifecycle = "uninitialized" /\ Lifecycle' = "initializing")
          => \E p \in Procs : Loaders' = Loaders \cup {p} /\ p \notin Loaders
       /\ Lifecycle = "initializing"
          => /\ Loaders' \subseteq Loaders
             /\ \A p \in Procs :
                   (procs[p].pc \in {"idle", "batch_item"} /\ procs'[p].via = "pending"
                    /\ procs'[p].pc # procs[p].pc)
                   => p \in Waiters']_vars

\* One call runs loadUroman and another one waits for it.
Wit_C32 ==
    /\ Lifecycle = "initializing"
    /\ loadCount = 1
    /\ Loaders # {}
    /\ Waiters # {}

\* ------------------------------------------------- request progress claims
\* How far the romanize call of a request has got: received, waiting for the
\* engine, holding the engine.
Stage(rec) ==
    CASE rec.pc \in {"getUroman_await", "initPromise_await"} -> 1
      [] rec.pc = "romanize_resume" -> 2
      [] OTHER -> 0

\* The engine call e is a call of romanize_string.
Transforms(e) == e # None /\ e[1].method = "romanize_string"

\* The romanize call of p settles in this step.
Responds(p) == IsRomanizeCall(settled') /\ settled'[1].proc = p

\* C33: a romanize call moves forward only (received, waiting for the engine,
\* holding the engine) until it responds; romanize_string is called only by a
\* call that holds the engine and that responds in the very step of the call,
\* with its value or with the failure, so it is called at most once per
\* request and not again after it threw; a call that responds from the cache
\* responds in its first step, in which no engine call is made.
Thm_C33 ==
    [][/\ \A p \in Procs :
             \/ Responds(p)
             \/ procs'[p] = procs[p]
             \/ Stage(procs'[p]) > Stage(procs[p])
             \/ Stage(procs'[p]) = 0 /\ Stage(procs[p]) = 0
       /\ Transforms(engineCall')
          => \E p \in Procs :
                /\ Responds(p)
                /\ Stage(procs[p]) = 2
                /\ Stage(procs'[p]) = 0
                /\ engineCall'[1].text = settled'[1].params.text
                /\ engineCall'[1].thrown # None
                   => /\ settled'[1].outcome.kind = "error"
                      /\ ErrorCode(settled') = ERROR_CODES.ROMANIZATION_FAILED
       /\ \A p \in Procs :
             (Responds(p) /\ Stage(procs[p]) = 0) => ~Transforms(engineCall')]_vars

\* The engine threw and the call responded with the failure.
Wit_C33 ==
    /\ Transforms(engineCall)
    /\ engineCall[1].thrown # None
    /\ IsRomanizeCall(settled)
    /\ settled[1].op = "romanize"
    /\ settled[1].outcome.kind = "error"
    /\ procs[settled[1].proc] = Idle

\* --------------------------------------------------------- liveness claims
\* The request of p is in flight.
InFlight(p) == procs[p].pc # "idle"

\* The request of p (a romanize call, or a romanizeBatch call as a whole) has
\* responded in the last step.
Responded(p) ==
    /\ settled # None
    /\ settled[1].proc = p
    /\ settled[1].op \in {"romanize", "batch"}

\* C34: under the scheduling of the event loop, every romanize and
\* romanizeBatch request in flight responds in the end, whether it runs the
\* initialization, waits for one in flight, or finds the engine ready or
\* failed (detectScript does not suspend: it responds in the step that calls
\* it).  Process 1 makes the batch calls and the other processes, which make
\* the single calls, are interchangeable.
Thm_C34 == \A p \in {1, NumProcs} : InFlight(p) ~> Responded(p)

\* A call that arrived while the initialization was in flight has responded
\* with the failure of the initialization.
Wit_C34 ==
    /\ settled # None
    /\ Responded(settled[1].proc)
    /\ settled[1].via = "pending"
    /\ settled[1].outcome.kind = "error"
    /\ ErrorCode(settled) = ERROR_CODES.INTERNAL_ERROR

\* ------------------------------------------------ cache integrity claims
\* The entry romanize stores for the engine call e.
EngineEntry(e) ==
    [key |-> generateCacheKey(e.text, e.lcode, Some(STR)), value |-> romanize_string(e.text)]

\* The entries of c.
Entries(c) == {c[i] : i \in 1..Len(c)}

\* C35: in every interleaving of romanize calls the cache holds at most one
\* entry per key and at most cacheSize entries, and an entry appears or
\* changes only in the step of an engine call in plain mode that returned,
\* as the key of the text and language of that call with the value the engine
\* returned for them.
Thm_C35 ==
    [][/\ \A i, j \in 1..Len(cache') : cache'[i].key = cache'[j].key => i = j
       /\ Len(cache') <= cacheSize
       /\ \A entry \in Entries(cache') \ Entries(cache) :
             /\ Transforms(engineCall')
             /\ engineCall'[1].format = "STR"
             /\ engineCall'[1].thrown = None
             /\ entry = EngineEntry(engineCall'[1])]_vars

\* Two calls for the same key both missed the cache, and the second of them
\* stores its value in a full cache that holds the key already.
Wit_C35 ==
    /\ Len(cache) = cacheSize
    /\ \E p \in Procs :
          /\ procs[p].pc = "romanize_resume"
          /\ \E i \in 1..Len(cache) :
                cache[i].key = generateCacheKey(procs[p].params.text, procs[p].params.language,
                                                Some(STR))

\* -------------------------------------------------------- details claims
\* The detectScript call that returned in the last step returned details.
DetailsReturned == DetectReturned /\ DetectedResult.details # None

DetectedDetails == DetectedResult.details[1]

\* The names of the scripts of the table of analyzeScripts.
ScriptNames == {scriptRanges[i].name : i \in 1..Len(scriptRanges)}

\* C36 (as claimed): the script of every entry of details for a character of
\* the text is the script that character is counted for in the aggregate
\* counts, and a character that is counted for no script is labelled neither
\* with a script nor with Other.
Cex_C36 ==
    DetailsReturned =>
        \A i \in 1..Len(DetectedDetails) :
           LET entry == DetectedDetails[i]
               counted == CountedFor(entry.char)
           IN  (\E k \in 1..Len(DetectedText) : DetectedText[k] = entry.char)
               => IF counted # None THEN entry.script = counted[1]
                  ELSE entry.script \notin ScriptNames \cup {"Other"}

\* The ranges of a table as the set of their names and bounds.
RangeSet(table) ==
    {<<table[i].name, table[i].first, table[i].last>> : i \in 1..Len(table)}

\* No two ranges of the table share a code point.
PairwiseDisjoint(table) ==
    \A i, j \in 1..Len(table) :
       i # j => table[i].last < table[j].first \/ table[j].last < table[i].first

\* C37: the ranges of analyzeScripts are pairwise disjoint, and so are those
\* of getCharScript, which are the same ranges; every character of a text
\* given to detectScript lies in at most one range, and getCharScript gives a
\* character that lies in a range the script of that range.
Thm_C37 ==
    /\ PairwiseDisjoint(scriptRanges)
    /\ PairwiseDisjoint(getCharScriptRanges)
    /\ RangeSet(scriptRanges) = RangeSet(getCharScriptRanges)
    /\ DetectReturned =>
          \A i \in 1..Len(DetectedText) :
             LET char == DetectedText[i]
                 found == RangesOf(codePointAt(char))
             IN  /\ Cardinality(found) <= 1
                 /\ (found # {} /\ codePointAt(char) # 0)
                    => \A k \in found : /\ getCharScript(char) = scriptRanges[k].name
                                        /\ CountedFor(char) = Some(scriptRanges[k].name)
    /\ DetailsReturned =>
          \A i \in 1..Len(DetectedDetails) :
             Cardinality(RangesOf(codePointAt(DetectedDetails[i].char))) <= 1

\* Details were returned for a text of a Latin and a Cyrillic letter.
Wit_C37 ==
    /\ DetailsReturned
    /\ DetectedText = <<"a", "U+043C">>
    /\ DetectedDetails = <<[char |-> "a", script |-> "Latin"],
                           [char |-> "U+043C", script |-> "Cyrillic"]>>

\* The smaller of two numbers.
Min(a, b) == IF a < b THEN a ELSE b

\* C38 (as claimed): a detectScript call with `detailed` that returns gives
\* details of min(DetailsLength, n) entries for a text of n characters, the
\* i-th entry for the i-th character of the text; a call without `detailed`
\* returns no details.
Cex_C38 ==
    DetectReturned =>
        IF settled[1].params.detailed
        THEN /\ DetectedResult.details # None
             /\ Len(DetectedDetails) = Min(DetailsLength, Len(DetectedText))
             /\ \A i \in 1..Len(DetectedDetails) : DetectedDetails[i].char = DetectedText[i]
        ELSE DetectedResult.details = None

\* ------------------------------------------------------ cache key claims
\* The key of a call in plain mode.
KeyOf(params) == generateCacheKey(params.text, params.language, Some(STR))

\* The language a call is made for, absent meaning 'auto'.
LanguageOf(params) == IF params.language = None THEN AUTO ELSE params.language[1]

\* The romanize call that settled in the last step returned from the cache.
CacheHit ==
    /\ IsRomanizeCall(settled)
    /\ settled[1].outcome.kind = "value"
    /\ settled[1].via = "none"

\* The calls whose keys are compared: those of KeyInputs, and calls for texts
\* that end like the keys of other calls.
KeyPairInputs ==
    KeyInputs \cup
    [text : {<<":">>, <<"a", ":", "u", "t", "o">>, <<"a", ":", "a", "u", "t", "o">>,
             <<"a", ":", "u", "t", "o", ":", "s", "t", "r">>, <<":", "a", "u", "t", "o">>},
     language : KeyLanguages \cup {Some(<<"s", "t", "r">>)}, format : {"undefined"},
     texts : {<<>>}]

\* The pairs of calls with valid languages that have the same key and
\* differ in the text or in the language.
KeyCollisions ==
    {pair \in KeyPairInputs \X KeyPairInputs :
        /\ validateLanguageCode(pair[1].language) = None
        /\ validateLanguageCode(pair[2].language) = None
        /\ KeyOf(pair[1]) = KeyOf(pair[2])
        /\ \/ pair[1].text # pair[2].text
           \/ LanguageOf(pair[1]) # LanguageOf(pair[2])}

\* C39: two calls with valid languages that have the same cache key have the
\* same text and the same language, also when the texts hold ':'; and a call
\* that returns from the cache returns, from the entry of its key, what the
\* engine returns for its text.
Thm_C39 ==
    /\ KeyCollisions = {}
    /\ CacheHit =>
          /\ settled[1].outcome.value[1].val = romanize_string(settled[1].params.text)
          /\ lastHit = Some(KeyOf(settled[1].params))

\* A call for a text with the separator and a language returned from the
\* cache, which holds the entry of another text and language as well.
Wit_C39 ==
    /\ CacheHit
    /\ settled[1].params.text = <<"a", ":">>
    /\ settled[1].params.language # None
    /\ Len(cache) = 2

\* ------------------------------------------------------ error type claims
\* The response of the last step answers a call of one of the three tools.
AnswersToolCall ==
    /\ response # None
    /\ response[1].request.method = "POST"
    /\ response[1].request.body.json = "object"
    /\ response[1].request.body.method = Some("tools/call")
    /\ response[1].request.body.params # None
    /\ response[1].request.body.params[1].name \in {"romanize", "romanize_batch", "detect_script"}

\* C40 (as claimed): what romanize, romanizeBatch and detectScript throw is an
\* MCPError with a code of ERROR_CODES, whatever arguments the tool was called
\* with, none included.
Cex_C40 ==
    (AnswersToolCall /\ response[1].caught # None)
    => IsMCPError(response[1].caught[1])

====
